---- MODULE Spec2Model ----
\* Verification model of the Bantah identity bridge (server/privyAuth.ts):
\* the auth middleware, the user upsert service and the user store they use.
\*
\* Text is a sequence of one-character strings, so that split, slice and
\* concatenation are computed as the code computes them.  A JavaScript value
\* that is falsy as a string (undefined, null, '') is the empty sequence; an
\* optional object is a sequence of length 0 (absent) or 1 (present).
EXTENDS Integers, Sequences, FiniteSets, TLC

\* ---------------------------------------------------------------- bounds
MaxReq == 2        \* requests handled in one behaviour
MaxFaults == 1     \* storage calls that throw or return no row in one behaviour
MaxEmailLen == 4   \* characters of an e-mail given to getInitialsFromEmail
MaxClicks == 2     \* requests the challenge card issues in one behaviour
MaxAttempts == 4     \* invocations of handleDeposit in the timed model
MaxElapsed == 7000   \* milliseconds of the timed model
MaxAuthChanges == 5  \* logins and logouts in one behaviour
MaxNotifReqs == 2  \* requests to the notifications router in one behaviour
MaxOps == 3        \* wallet operations, committed or under way, after which the page submits nothing more

\* ---------------------------------------------------------------- text
Lower == <<"a","b","c","d","e","f","g","h","i","j","k","l","m",
           "n","o","p","q","r","s","t","u","v","w","x","y","z">>
Upper == <<"A","B","C","D","E","F","G","H","I","J","K","L","M",
           "N","O","P","Q","R","S","T","U","V","W","X","Y","Z">>
Digits == <<"0","1","2","3","4","5","6","7","8","9">>

Range(s) == {s[i] : i \in 1..Len(s)}

\* /[a-z0-9]/i
IsAlnum(c) == c \in Range(Lower) \cup Range(Upper) \cup Range(Digits)

\* String.prototype.toUpperCase on one character, then on a string
UpperChar(c) ==
  IF c \in Range(Lower)
    THEN Upper[CHOOSE i \in 1..Len(Lower) : Lower[i] = c]
    ELSE c
toUpperCase(s) == [i \in 1..Len(s) |-> UpperChar(s[i])]

\* s.slice(0, n)
Take(s, n) == SubSeq(s, 1, IF n < Len(s) THEN n ELSE Len(s))
\* s.slice(-n)
SliceLast(s, n) == IF Len(s) <= n THEN s ELSE SubSeq(s, Len(s) - n + 1, Len(s))

\* mutant: the address is not cut at the '@'
LocalPart_wholeEmail(s) == s
\* email.split('@')[0]: the text before the first '@' (all of it when there is none)
RECURSIVE LocalPart(_)
LocalPart(s) ==
  IF s = <<>> \/ Head(s) = "@" THEN <<>> ELSE <<Head(s)>> \o LocalPart(Tail(s))

\* local.split(/[^a-z0-9]+/i).filter(Boolean): the maximal alphanumeric runs
RECURSIVE SplitAlnum(_, _)
SplitAlnum(s, cur) ==
  IF s = <<>>
    THEN (IF cur = <<>> THEN <<>> ELSE <<cur>>)
    ELSE IF IsAlnum(Head(s))
      THEN SplitAlnum(Tail(s), Append(cur, Head(s)))
      ELSE (IF cur = <<>> THEN <<>> ELSE <<cur>>) \o SplitAlnum(Tail(s), <<>>)

getInitialsFromEmail(email) ==
  IF email = <<>> THEN <<>>
  ELSE LET local == LocalPart(email)
           parts == SplitAlnum(local, <<>>)
       IN  IF Len(parts) >= 2 THEN toUpperCase(<<parts[1][1], parts[2][1]>>)
           ELSE IF Len(parts) = 1 THEN toUpperCase(Take(parts[1], 2))
           ELSE <<>>

\* Number.prototype.toString for a non-negative integer
RECURSIVE NumToString(_)
NumToString(n) ==
  IF n < 10 THEN <<Digits[n + 1]>> ELSE NumToString(n \div 10) \o <<Digits[(n % 10) + 1]>>

\* a || b on strings
OrElse(a, b) == IF a # <<>> THEN a ELSE b

\* ---------------------------------------------------------------- data
Txt_User == <<"U","s","e","r">>
Txt_user_ == <<"u","s","e","r","_">>
Txt_tg_ == <<"t","g","_">>
Txt_privy_user == <<"@","p","r","i","v","y",".","u","s","e","r">>

\* subject identifiers issued by the identity provider
IdA == <<"d","i","d",":","a","1","b","2","c","3">>
IdB == <<"d","i","d",":","z","9","y","8","x","7">>
\* an e-mail address with two tokens in its local part
MailJo == <<"j","o",".","d","o","e","@","x">>

Account(type, tgId, tgName) ==
  [type |-> type, telegramUserId |-> tgId, telegramUsername |-> tgName]
TgBob == <<"b","o","b">>
\* verifiedClaims.linkedAccounts (absent and [] behave alike: nothing is found);
\* telegramUserId 0 stands for a missing id (both are falsy)
LinkedAccountsSet ==
  { <<>>,
    <<Account("telegram", 42, TgBob)>>,
    <<Account("wallet", 0, <<>>), Account("telegram", 42, <<>>)>>,
    <<Account("telegram", 0, TgBob)>> }

NameAl == <<"A","l">>
NameAlB == <<"A","l"," ","B">>
NameBo == <<"B","o">>
Pic == <<"p">>
\* email, given_name, name, family_name, picture as the provider may send them
ProfileSet ==
  { [email |-> <<>>, given_name |-> <<>>, name |-> <<>>, family_name |-> <<>>,
     picture |-> Pic],
    [email |-> MailJo, given_name |-> <<>>, name |-> <<>>, family_name |-> <<>>,
     picture |-> <<>>],
    [email |-> MailJo, given_name |-> NameAl, name |-> NameAlB, family_name |-> NameBo,
     picture |-> Pic] }

\* the claims objects privyClient.verifyAuthToken may return
ClaimSet ==
  { [userId |-> ids[1], sub |-> ids[2], email |-> p.email,
     given_name |-> p.given_name, name |-> p.name, family_name |-> p.family_name,
     picture |-> p.picture, linkedAccounts |-> l] :
      ids \in {<<(<<>>), (<<>>)>>, <<(<<>>), IdB>>, <<IdA, IdB>>},
      p \in ProfileSet,
      l \in LinkedAccountsSet }

\* a row of the users table
UserRow(id, email, password, firstName, lastName, username, img, isAdmin, tgId, tgName, isTg) ==
  [id |-> id, email |-> email, password |-> password, firstName |-> firstName,
   lastName |-> lastName, username |-> username, profileImageUrl |-> img,
   isAdmin |-> isAdmin, telegramId |-> tgId, telegramUsername |-> tgName,
   isTelegramUser |-> isTg]

\* users that exist before any request: accounts made by the password flow
LegacyB(isAdmin, tgId) ==
  UserRow(IdB, MailJo, "hash", NameBo, NameAl, NameBo, <<>>, isAdmin, tgId, <<>>,
          tgId # <<>>)
InitStores ==
  { {}, {LegacyB("yes", <<>>)}, {LegacyB("absent", <<"7">>)} }

\* ---------------------------------------------------------------- user store
\* storage.getUser(id): the row with that id, if any
getUser(store, id) == {u \in store : u.id = id}
\* storage.getUserByEmail(email): the rows with that e-mail
getUserByEmail(store, email) == {u \in store : u.email = email}
\* storage.upsertUser(data): insert the row, or overwrite the given columns of
\* the row with the same id; the stored row
upsertedRow(store, d) ==
  IF getUser(store, d.id) = {}
    THEN UserRow(d.id, d.email, d.password, d.firstName, d.lastName, d.username,
                 d.profileImageUrl, "no", <<>>, <<>>, FALSE)
    ELSE LET old == CHOOSE u \in store : u.id = d.id
         IN  [old EXCEPT !.email = d.email, !.password = d.password,
                         !.firstName = d.firstName, !.lastName = d.lastName,
                         !.username = d.username,
                         !.profileImageUrl = d.profileImageUrl]
upsertUser(store, d) ==
  {u \in store : u.id # d.id} \cup {upsertedRow(store, d)}
\* storage.updateUserTelegramInfo(id, info): set the three columns of that row
updatedTelegramRow(u, info) ==
  [u EXCEPT !.telegramId = info.telegramId,
            !.telegramUsername = info.telegramUsername,
            !.isTelegramUser = info.isTelegramUser]
updateUserTelegramInfo(store, id, info) ==
  {IF u.id = id THEN updatedTelegramRow(u, info) ELSE u : u \in store}

\* ---------------------------------------------------------------- upsertPrivyUser, step by step
\* verifiedClaims.userId || verifiedClaims.sub
ResolveUserId(vc) == OrElse(vc.userId, vc.sub)
\* mutant: the e-mail of the claims is ignored
ResolveEmail_syntheticOnly(vc, userId) == userId \o Txt_privy_user
\* verifiedClaims.email || `${userId}@privy.user`
ResolveEmail(vc, userId) == OrElse(vc.email, userId \o Txt_privy_user)
\* verifiedClaims.email?.split('@')[0] || `user_${userId.slice(-8)}`
DeriveUsername(vc, userId) ==
  OrElse(LocalPart(vc.email), Txt_user_ \o SliceLast(userId, 8))
\* getInitialsFromEmail(verifiedClaims.email) || 'User'
FallbackFirstName(vc) == OrElse(getInitialsFromEmail(vc.email), Txt_User)
\* mutant: the row is keyed by sub alone
NewUserData_idFromSub(vc, userId) ==
  [id |-> vc.sub,
   email |-> ResolveEmail(vc, userId),
   password |-> "PRIVY_AUTH_USER",
   firstName |-> OrElse(vc.given_name, OrElse(vc.name, FallbackFirstName(vc))),
   lastName |-> OrElse(vc.family_name, Txt_User),
   username |-> DeriveUsername(vc, userId),
   profileImageUrl |-> vc.picture]
\* the argument of storage.upsertUser
NewUserData(vc, userId) ==
  [id |-> userId,
   email |-> ResolveEmail(vc, userId),
   password |-> "PRIVY_AUTH_USER",
   firstName |-> OrElse(vc.given_name, OrElse(vc.name, FallbackFirstName(vc))),
   lastName |-> OrElse(vc.family_name, Txt_User),
   username |-> DeriveUsername(vc, userId),
   profileImageUrl |-> vc.picture]

\* linkedAccounts.find(account => account.type === 'telegram'): the first one
FindTelegram(accounts) ==
  LET hits == {i \in 1..Len(accounts) : accounts[i].type = "telegram"}
  IN  IF hits = {} THEN <<>>
      ELSE <<accounts[CHOOSE i \in hits : \A j \in hits : i <= j]>>
\* telegramAccount && telegramAccount.telegramUserId
TelegramDetected(vc) ==
  /\ FindTelegram(vc.linkedAccounts) # <<>>
  /\ FindTelegram(vc.linkedAccounts)[1].telegramUserId # 0
\* mutant: the linkage is written whether or not it is recorded
TelegramUnset_always(row) == TRUE
\* !dbUser.telegramId
TelegramUnset(row) == row.telegramId = <<>>
\* the second argument of storage.updateUserTelegramInfo
TelegramInfo(vc) ==
  LET acc == FindTelegram(vc.linkedAccounts)[1]
  IN  [telegramId |-> NumToString(acc.telegramUserId),
       telegramUsername |->
         OrElse(acc.telegramUsername, Txt_tg_ \o NumToString(acc.telegramUserId)),
       isTelegramUser |-> TRUE]

\* ---------------------------------------------------------------- PrivyAuthMiddleware
\* authHeader.replace('Bearer ', ''): a header is a sequence of segments, and
\* the first segment 'Bearer ' is removed
RECURSIVE StripBearer(_)
StripBearer(h) ==
  IF h = <<>> THEN <<>>
  ELSE IF Head(h) = "Bearer " THEN Tail(h)
  ELSE <<Head(h)>> \o StripBearer(Tail(h))

\* mutants: the session branch taken without asking isAuthenticated, and the
\* session branch taken only when a header is present
SessionBranch_ignoresIsAuth(authHeader, isAuth) == authHeader = <<>>
SessionBranch_headerRequired(authHeader, isAuth) ==
  authHeader # <<>> /\ isAuth = "true"
\* !authHeader && req.isAuthenticated && req.isAuthenticated()
SessionBranch(authHeader, isAuth) == authHeader = <<>> /\ isAuth = "true"
\* mutant: an error while reading req.user is taken for a session identity
SessionAccepted_onError(authHeader, s) ==
  SessionBranch(authHeader, s.isAuth) /\ (s.throws \/ s.user # <<>>)
\* lines 111-118: the session branch is entered, req.user is read without an
\* error and is not empty
SessionAccepted(authHeader, s) ==
  SessionBranch(authHeader, s.isAuth) /\ ~s.throws /\ s.user # <<>>
\* mutant: only a null result is rejected
VerificationRejected_nullOnly(vc) == vc = <<>>
\* !verifiedClaims || !userId
VerificationRejected(vc) == vc = <<>> \/ ResolveUserId(vc[1]) = <<>>
\* mutant: a missing isAdmin counts as admin
IsAdminOf_absentIsAdmin(row) == row.isAdmin # "no"
\* dbUser.isAdmin || false
IsAdminOf(row) == row.isAdmin = "yes"
\* the object assigned to req.user
NormalizedIdentity(row) ==
  [id |-> row.id,
   email |-> OrElse(row.email, <<>>),
   firstName |-> row.firstName,
   lastName |-> row.lastName,
   username |-> row.username,
   isAdmin |-> IsAdminOf(row),
   claims |-> [sub |-> row.id, email |-> row.email,
               first_name |-> row.firstName, last_name |-> row.lastName]]

Headers == { <<>>, <<"Bearer ", "tok">>, <<"tok">> }
\* req.isAuthenticated (missing, or what it returns) and req.user (a getter
\* that may throw)
Sessions ==
  { [isAuth |-> "missing", user |-> <<>>, throws |-> FALSE],
    [isAuth |-> "false", user |-> <<>>, throws |-> FALSE],
    [isAuth |-> "missing", user |-> <<LegacyB("yes", <<>>)>>, throws |-> FALSE],
    [isAuth |-> "false", user |-> <<LegacyB("yes", <<>>)>>, throws |-> FALSE],
    [isAuth |-> "true", user |-> <<>>, throws |-> FALSE],
    [isAuth |-> "true", user |-> <<LegacyB("yes", <<>>)>>, throws |-> FALSE],
    [isAuth |-> "true", user |-> <<>>, throws |-> TRUE] }

\* request slots; the specification Spec reuses slot 1 for every request
Reqs == 1..MaxReq
SeqReqs == {1}

VARIABLES
  users,    \* the users table
  rq,       \* per request: where the handler is, its locals and what it has sent
  nReq,     \* requests received so far
  faults,   \* storage faults injected so far
  fixed,    \* the claims every token verifies to, when the behaviour repeats
            \* one login (empty: the provider answers freely)
  users0    \* the users table before the first request

\* getInitialsFromEmail on its own
VARIABLES
  emailArg,    \* the argument
  initials  \* empty before the call, then the result in a sequence of length 1

\* the wallet: the page (WalletPage.tsx) and the server behind /api/wallet
VARIABLES
  wallet,        \* server: the user's balances [balance, coins]
  transactions,  \* server: the user's transaction records, oldest first
  handling,      \* server: how far the handler of each wallet request has come
  balance,       \* page: data of the /api/wallet/balance query
  fetching,      \* page: the balance query is being (re)fetched
  cooldown,      \* page: Date.now() - lastDepositAttempt < 3000
  mutation,      \* page: depositMutation, withdrawMutation, swapMutation
  toast          \* page: title of the last toast shown

\* one challenge: its row at the server and the card (ChallengeCard) showing
\* it on the Challenges page of one user
VARIABLES
  challenge,          \* server: the challenge row
  viewer,             \* page: the user of useAuth
  card,               \* page: the challenge prop, as last fetched
  refetching,         \* page: the /api/challenges query is being refetched
  requests,           \* how many requests of each kind the card has under way
  clicks,             \* requests the card has issued
  showJoinModal,      \* page: Challenges.showJoinModal
  selectedChallenge   \* page: the selectedSide of Challenges.selectedChallenge

\* the create-challenge dialog of the Challenges page (Challenges.tsx) and the
\* server behind POST /api/challenges; the page's balance is the
\* /api/wallet/balance query of the wallet above
VARIABLES
  form,      \* page: the values the form was last submitted with
  creation,  \* page: createChallengeMutation
  created    \* server: the stakes of the challenges created, oldest first

\* the notifications router (src/unnamed/part_000) and the tables it works on
VARIABLES
  notifications,  \* database: the notifications table
  prefs,          \* database: the notification preference row of each user, if any
  nrq             \* the requests to the router, each with how far its handler has come

\* the client's token cache (queryClient.ts) and the useAuth hook that fills it
VARIABLES
  ready,            \* usePrivy().ready
  authenticated,    \* usePrivy().authenticated
  cachedAuthToken,  \* queryClient: cachedAuthToken, empty when null
  tokenFetches,     \* getAccessToken calls under way
  effectDue,        \* the effect of useAuth has yet to run for the latest auth state
  authChanges       \* changes of the auth state so far

\* the popup of the browser extension
VARIABLES
  settings,  \* chrome.storage.sync
  alarm,     \* chrome.alarms: the period of bantah_poll_notifications, if it exists
  popup      \* the popup's inputs while it is open

\* the deposit cooldown of the wallet page, with the clock
VARIABLES
  now,                 \* Date.now()
  lastDepositAttempt,  \* page: lastDepositAttempt
  depositLog           \* the times at which deposit requests were submitted

authVars == <<users, rq, nReq, faults, fixed, users0>>
createVars == <<form, creation, created>>
notifVars == <<notifications, prefs, nrq>>
tokenVars == <<ready, authenticated, cachedAuthToken, tokenFetches, effectDue, authChanges>>
popupVars == <<settings, alarm, popup>>
clockVars == <<now, lastDepositAttempt, depositLog>>
initialsVars == <<emailArg, initials>>
walletVars == <<wallet, transactions, handling, balance, fetching, cooldown, mutation, toast>>
challengeVars == <<challenge, viewer, card, refetching, requests, clicks, showJoinModal, selectedChallenge>>
\* everything outside the identity bridge
\* the parts of the system the later sections add
laterVars == <<createVars, notifVars, tokenVars, popupVars, clockVars>>
frontVars == <<authVars, initialsVars, walletVars, challengeVars>>
\* everything but the create dialog and the wallet it reads
notCreateVars == <<authVars, initialsVars, challengeVars, notifVars, tokenVars, popupVars, clockVars>>
notNotifVars == <<frontVars, createVars, tokenVars, popupVars, clockVars>>
notTokenVars == <<frontVars, createVars, notifVars, popupVars, clockVars>>
notPopupVars == <<frontVars, createVars, notifVars, tokenVars, clockVars>>
notClockVars == <<frontVars, createVars, notifVars, tokenVars, popupVars>>
otherVars == <<initialsVars, walletVars, challengeVars, laterVars>>
notInitialsVars == <<authVars, walletVars, challengeVars, laterVars>>
notWalletVars == <<authVars, initialsVars, challengeVars, laterVars>>
notChallengeVars == <<authVars, initialsVars, walletVars, laterVars>>
vars == <<authVars, otherVars>>

\* the fields of a challenge row the card receives
CardFields == {"status", "adminCreated", "challenger", "challenged", "isPinned", "participantCount"}
CardOf(row) == [f \in CardFields |-> row[f]]
ChallengeRow(status, adminCreated, challenger, challenged, isPinned, participants) == [status |-> status, adminCreated |-> adminCreated, challenger |-> challenger, challenged |-> challenged, isPinned |-> isPinned, participants |-> participants, participantCount |-> Cardinality(participants)]
\* the requests of the card: accept, decline (a PATCH) and pin, each either
\* awaiting the server or answered by it
Request(kind, body) == [kind |-> kind, body |-> body, answer |-> "none"]
RequestKinds ==
  {Request("accept", <<>>)}
    \cup {Request("patch", [status |-> st]) : st \in {"cancelled", "completed"}}
    \cup {Request("pin", [pin |-> b]) : b \in BOOLEAN}
RequestStates == {[r EXCEPT !.answer = a] : r \in RequestKinds, a \in {"none", "ok", "rejected"}}
NoRequests == [r \in RequestStates |-> 0]
Ann == [id |-> "ann", isAdmin |-> TRUE]
Bob == [id |-> "bob", isAdmin |-> FALSE]
Cy == [id |-> "cy", isAdmin |-> FALSE]

Mutations == {"deposit", "withdraw", "swap"}
\* a mutation at rest: no request body, no response
IdleMutation == [isPending |-> FALSE, body |-> <<>>, response |-> "none"]
NoBalance == [balance |-> 0, coins |-> 0]

InitialsIdle == emailArg = <<>> /\ initials = <<>>
WalletIdle ==
  /\ wallet = NoBalance
  /\ transactions = <<>>
  /\ handling = [k \in Mutations |-> "none"]
  /\ balance = NoBalance
  /\ fetching = FALSE
  /\ cooldown = FALSE
  /\ mutation = [k \in Mutations |-> IdleMutation]
  /\ toast = "none"
ChallengeIdle ==
  /\ challenge = ChallengeRow("pending", FALSE, "bob", "cy", FALSE, {})
  /\ viewer = Bob
  /\ card = CardOf(challenge)
  /\ refetching = FALSE
  /\ requests = NoRequests
  /\ clicks = 0
  /\ showJoinModal = FALSE
  /\ selectedChallenge = <<>>
NoForm == [challenged |-> "", title |-> 0, category |-> "", amount |-> <<>>]
CreateIdle == form = NoForm /\ creation = IdleMutation /\ created = <<>>
NotifIdle == notifications = {} /\ prefs = <<>> /\ nrq = <<>>
TokenIdle ==
  /\ ready = FALSE /\ authenticated = FALSE /\ cachedAuthToken = <<>>
  /\ tokenFetches = <<>> /\ effectDue = FALSE /\ authChanges = 0
PopupIdle == settings = <<>> /\ alarm = <<>> /\ popup = <<>>
ClockIdle == now = 0 /\ lastDepositAttempt = 0 /\ depositLog = <<>>
LaterIdle == CreateIdle /\ NotifIdle /\ TokenIdle /\ PopupIdle /\ ClockIdle
OtherIdle == InitialsIdle /\ WalletIdle /\ ChallengeIdle /\ LaterIdle

NoClaims == <<>>
IdleRequest ==
  [pc |-> "idle", authHeader |-> <<>>, token |-> <<>>,
   session |-> [isAuth |-> "missing", user |-> <<>>, throws |-> FALSE],
   verifyThrew |-> FALSE, claims |-> NoClaims, userId |-> <<>>,
   dbUser |-> <<>>, returned |-> <<>>, user |-> <<>>,
   status |-> 0, message |-> "", responses |-> 0, nextCalls |-> 0,
   verifyCalls |-> 0, calls |-> <<>>, writes |-> <<>>]

Init ==
  /\ users \in InitStores
  /\ rq = [r \in Reqs |-> IdleRequest]
  /\ nReq = 0
  /\ faults = 0
  /\ fixed = <<>>
  /\ users0 = users
  /\ OtherIdle

\* what a request may carry, and what the provider may answer
RequestInputs ==
  IF fixed = <<>> THEN Headers \X Sessions
  ELSE {<<(<<"Bearer ", "tok">>), [isAuth |-> "missing", user |-> <<>>, throws |-> FALSE]>>}
ProviderAnswers ==
  IF fixed = <<>> THEN {<<>>} \cup {<<c>> : c \in ClaimSet} ELSE {fixed}

\* res.status(code).json({message})
Respond(q, code, msg) ==
  [q EXCEPT !.pc = "done", !.status = code, !.message = msg,
            !.responses = @ + 1]
\* mutant: the call of next() is followed by the answer of the catch block
CallNext_thenCatch(q) == [q EXCEPT !.pc = "done", !.nextCalls = @ + 1, !.status = 500, !.responses = @ + 1]
\* next()
CallNext(q) == [q EXCEPT !.pc = "done", !.nextCalls = @ + 1]
\* mutant: the catch block answers like an invalid token
CatchAll_401(q) == Respond(q, 401, "Internal server error during authentication")
\* the catch block of PrivyAuthMiddleware
CatchAll(q) == Respond(q, 500, "Internal server error during authentication")
\* a storage call of this request and how it ended
Logged(q, op, out) == [q EXCEPT !.calls = Append(@, <<op, out>>)]
\* a storage write this request issued, and the id of the row it is aimed at
Wrote(q, op, id) == [q EXCEPT !.writes = Append(@, <<op, id>>)]
\* the first argument of storage.updateUserTelegramInfo
TelegramTarget(q) == q.userId

\* lines 141-162: after upsertPrivyUser returned dbUser
AfterUpsert(q, dbUser) ==
  IF dbUser = <<>>
    THEN Respond(q, 500, "Failed to create or retrieve user")
    ELSE CallNext([q EXCEPT !.returned = dbUser,
                            !.user = <<NormalizedIdentity(dbUser[1])>>])

\* lines 82-100: the linkage step, up to its await or to the return
AfterResolve(q0, dbUser) ==
  LET vc == q0.claims[1]
      q == [q0 EXCEPT !.dbUser = dbUser]
  IN  IF TelegramDetected(vc)
        THEN IF dbUser = <<>>
               THEN CatchAll(q)           \* dbUser.telegramId of undefined throws
               ELSE IF TelegramUnset(dbUser[1])
                 THEN [q EXCEPT !.pc = "updateTelegram"]
                 ELSE AfterUpsert(q, dbUser)
        ELSE AfterUpsert(q, dbUser)

\* ---------------------------------------------------------------- actions
\* A request arrives; lines 107-129 run up to the first await.
PrivyAuthMiddleware(r) ==
  /\ rq[r].pc \in {"idle", "done"}
  /\ nReq < MaxReq
  /\ \E in \in RequestInputs :
       LET h == in[1]
           s == in[2]
           q == [IdleRequest EXCEPT !.authHeader = h, !.session = s,
                                    !.user = s.user]
       IN  rq' = [rq EXCEPT ![r] =
             IF SessionAccepted(h, s)
               THEN CallNext(q)
               ELSE IF h = <<>>
                 THEN Respond(q, 401, "Authorization header missing")
                 ELSE [q EXCEPT !.pc = "verify", !.token = StripBearer(h)]]
  /\ nReq' = nReq + 1
  /\ UNCHANGED <<users, faults, fixed, users0>>
  /\ UNCHANGED otherVars

\* lines 16-24 and 132-137: privyClient.verifyAuthToken settles (it returns
\* claims or null, or it throws), then the subject id is checked
verifyPrivyToken(r) ==
  /\ rq[r].pc = "verify"
  /\ \E vc \in ProviderAnswers, thrown \in BOOLEAN :
       LET verifiedClaims == IF thrown THEN <<>> ELSE vc
           q == [rq[r] EXCEPT !.verifyCalls = @ + 1, !.verifyThrew = thrown,
                              !.claims = verifiedClaims]
       IN  /\ thrown => (vc = <<>> /\ fixed = <<>>)
           /\ rq' = [rq EXCEPT ![r] =
                IF VerificationRejected(verifiedClaims)
                  THEN Respond(q, 401, "Invalid token or user ID not found")
                  ELSE [q EXCEPT !.pc = "getUser",
                                 !.userId = ResolveUserId(verifiedClaims[1])]]
  /\ UNCHANGED <<users, nReq, faults, fixed, users0>>
  /\ UNCHANGED otherVars

\* lines 43-52 and 57-59: storage.getUser settles; a throw is swallowed
getUserFromDb(r) ==
  /\ rq[r].pc = "getUser"
  /\ \/ /\ LET found == getUser(users, rq[r].userId)
               dbUser == IF found = {} THEN <<>> ELSE <<CHOOSE u \in found : TRUE>>
               q == Logged(rq[r], "getUser", "ok")
           IN  rq' = [rq EXCEPT ![r] =
                 IF dbUser = <<>>
                   THEN [q EXCEPT !.pc = "getUserByEmail"]
                   ELSE AfterResolve(q, dbUser)]
        /\ UNCHANGED faults
     \/ /\ faults < MaxFaults
        /\ faults' = faults + 1
        /\ rq' = [rq EXCEPT ![r] =
             [Logged(rq[r], "getUser", "throws") EXCEPT !.pc = "getUserByEmail"]]
  /\ UNCHANGED <<users, nReq, fixed, users0>>
  /\ UNCHANGED otherVars

\* lines 60-65: storage.getUserByEmail settles
upsertPrivyUser_getUserByEmail(r) ==
  /\ rq[r].pc = "getUserByEmail"
  /\ LET email == ResolveEmail(rq[r].claims[1], rq[r].userId)
         found == getUserByEmail(users, email)
         q == Logged(rq[r], "getUserByEmail", "ok")
     IN  \/ /\ found = {}
            /\ rq' = [rq EXCEPT ![r] = [q EXCEPT !.pc = "upsertUser"]]
            /\ UNCHANGED faults
         \/ /\ \E existingByEmail \in found :
                 rq' = [rq EXCEPT ![r] = AfterUpsert(q, <<existingByEmail>>)]
            /\ UNCHANGED faults
         \/ /\ faults < MaxFaults
            /\ faults' = faults + 1
            /\ rq' = [rq EXCEPT ![r] =
                 CatchAll(Logged(rq[r], "getUserByEmail", "throws"))]
  /\ UNCHANGED <<users, nReq, fixed, users0>>
  /\ UNCHANGED otherVars

\* lines 67-80: storage.upsertUser settles
upsertPrivyUser_upsertUser(r) ==
  /\ rq[r].pc = "upsertUser"
  /\ LET data == NewUserData(rq[r].claims[1], rq[r].userId)
         q0 == Wrote(rq[r], "upsertUser", data.id)
     IN
     \/ /\ users' = upsertUser(users, data)
        /\ rq' = [rq EXCEPT ![r] =
             AfterResolve(Logged(q0, "upsertUser", "ok"),
                          <<upsertedRow(users, data)>>)]
        /\ UNCHANGED faults
     \/ /\ faults < MaxFaults
        /\ faults' = faults + 1
        /\ \E out \in {"throws", "empty"} :
             rq' = [rq EXCEPT ![r] =
               IF out = "throws"
                 THEN CatchAll(Logged(q0, "upsertUser", out))
                 ELSE AfterResolve(Logged(q0, "upsertUser", out), <<>>)]
        /\ UNCHANGED users
  /\ UNCHANGED <<nReq, fixed, users0>>
  /\ UNCHANGED otherVars

\* lines 89-96: storage.updateUserTelegramInfo settles
upsertPrivyUser_updateUserTelegramInfo(r) ==
  /\ rq[r].pc = "updateTelegram"
  /\ LET info == TelegramInfo(rq[r].claims[1])
         target == TelegramTarget(rq[r])
         rows == getUser(users, target)
         q0 == Wrote(rq[r], "updateUserTelegramInfo", target)
     IN
     \/ /\ users' = updateUserTelegramInfo(users, target, info)
        /\ LET dbUser == IF rows = {} THEN <<>>
                         ELSE <<updatedTelegramRow(CHOOSE u \in rows : TRUE, info)>>
               q == [Logged(q0, "updateUserTelegramInfo", "ok") EXCEPT
                       !.dbUser = dbUser]
           IN  rq' = [rq EXCEPT ![r] = AfterUpsert(q, dbUser)]
        /\ UNCHANGED faults
     \/ /\ faults < MaxFaults
        /\ faults' = faults + 1
        /\ rq' = [rq EXCEPT ![r] =
             CatchAll(Logged(q0, "updateUserTelegramInfo", "throws"))]
        /\ UNCHANGED users
  /\ UNCHANGED <<nReq, fixed, users0>>
  /\ UNCHANGED otherVars

Step(r) ==
  \/ PrivyAuthMiddleware(r)
  \/ verifyPrivyToken(r)
  \/ getUserFromDb(r)
  \/ upsertPrivyUser_getUserByEmail(r)
  \/ upsertPrivyUser_upsertUser(r)
  \/ upsertPrivyUser_updateUserTelegramInfo(r)

\* requests handled one after the other
Next == \E r \in SeqReqs : Step(r)

Spec == Init /\ [][Next]_vars

\* one login repeated: every request carries a token that verifies to the
\* same claims, request k runs in slot k after request k-1 has ended
InitRepeat ==
  /\ users \in InitStores
  /\ rq = [r \in Reqs |-> IdleRequest]
  /\ nReq = 0
  /\ faults = 0
  /\ fixed \in {<<c>> : c \in {d \in ClaimSet : ResolveUserId(d) # <<>>}}
  /\ users0 = users
  /\ OtherIdle

NextRepeat ==
  \E r \in Reqs :
    /\ rq[r].pc = "idle" => (r = nReq + 1 /\ \A o \in Reqs : rq[o].pc \in {"idle", "done"})
    /\ rq[r].pc # "done"
    /\ Step(r)

SpecRepeat == InitRepeat /\ [][NextRepeat]_vars

\* ---------------------------------------------------------------- getInitialsFromEmail alone
AuthIdle ==
  /\ users = {}
  /\ rq = [r \in Reqs |-> IdleRequest]
  /\ nReq = 0
  /\ faults = 0
  /\ fixed = <<>>
  /\ users0 = {}
FrontIdle == AuthIdle /\ InitialsIdle /\ WalletIdle /\ ChallengeIdle

\* the characters e-mails are made of: letters of both cases, a digit, two
\* separators and the at sign
EmailAlphabet == {"j", "D", "7", ".", "_", "@"}
MailJoDoe == <<"j","o",".","d","o","e","@","x",".","c","o","m">>
MailDoe == <<"d","o","e","@","x",".","c","o","m">>
MailNoLocal == <<"@","x",".","c","o","m">>
EmailInputs ==
  UNION {[1..n -> EmailAlphabet] : n \in 0..MaxEmailLen}
    \cup {MailJoDoe, MailDoe, MailNoLocal}

InitInitials ==
  /\ AuthIdle
  /\ WalletIdle
  /\ ChallengeIdle
  /\ LaterIdle
  /\ emailArg \in EmailInputs
  /\ initials = <<>>

CallGetInitials ==
  /\ initials = <<>>
  /\ initials' = <<getInitialsFromEmail(emailArg)>>
  /\ UNCHANGED <<emailArg, notInitialsVars>>

NextInitials == CallGetInitials

SpecInitials == InitInitials /\ [][NextInitials]_vars


\* ---------------------------------------------------------------- wallet
\* 1 money unit = 10 coins
Rate == 10
\* decimal quantities are kept as whole numbers of tenths
Scale == 10
Amount(n) == n * Scale

\* what the user has typed into an amount field when the button is clicked;
\* the button is disabled while the field is empty, and a number input holds
\* nothing but a number
AmountInputs == {Amount(-10), 0, Amount(10), Amount(50), Amount(100), Amount(150)}
DepositInputs == {Amount(-10), 0, Amount(100)}
Directions == {"money-to-coins", "coins-to-money"}

\* --- server (wallet endpoints of the specification, section 4.4)
Tx(type, currency, amount) == [type |-> type, currency |-> currency, amount |-> amount]

RECURSIVE LedgerSum(_, _)
LedgerSum(txs, currency) ==
  IF txs = <<>> THEN 0
  ELSE LedgerSum(Take(txs, Len(txs) - 1), currency)
         + (IF txs[Len(txs)].currency = currency THEN txs[Len(txs)].amount ELSE 0)

DepositVerdict(a) == IF a > 0 THEN "ok" ELSE "invalid"
WithdrawVerdict(a) ==
  IF a > 0 /\ a <= wallet.balance THEN "ok" ELSE "insufficient"
SourceBalance(w, from) == IF from = "money" THEN w.balance ELSE w.coins
SwapVerdict(a, from) ==
  IF a <= 0 THEN "invalid"
  ELSE IF a > SourceBalance(wallet, from) THEN "insufficient"
  ELSE "ok"
Verdict(k) ==
  LET b == mutation[k].body[1]
  IN  CASE k = "deposit" -> DepositVerdict(b.amount)
        [] k = "withdraw" -> WithdrawVerdict(b.amount)
        [] k = "swap" -> SwapVerdict(b.amount, b.fromCurrency)

\* to-coin debits primary and credits coin x rate; to-money debits coin and
\* credits primary at amount / rate
Swapped(w, a, from) ==
  IF from = "money"
    THEN [balance |-> w.balance - a, coins |-> w.coins + a * Rate]
    ELSE [balance |-> w.balance + a \div Rate, coins |-> w.coins - a]
SwapLegs(a, from) ==
  IF from = "money"
    THEN <<Tx("swap", "money", -a), Tx("swap", "coins", a * Rate)>>
    ELSE <<Tx("swap", "coins", -a), Tx("swap", "money", a \div Rate)>>

\* the balances a request leaves, and the records it writes
Applied(k, w) ==
  LET b == mutation[k].body[1]
  IN  CASE k = "deposit" -> [w EXCEPT !.balance = @ + b.amount]
        [] k = "withdraw" -> [w EXCEPT !.balance = @ - b.amount]
        [] k = "swap" -> Swapped(w, b.amount, b.fromCurrency)
Records(k) ==
  LET b == mutation[k].body[1]
  IN  CASE k = "deposit" -> <<Tx("deposit", "money", b.amount)>>
        [] k = "withdraw" -> <<Tx("withdrawal", "money", -b.amount)>>
        [] k = "swap" -> SwapLegs(b.amount, b.fromCurrency)

Awaiting(k) == mutation[k].isPending /\ mutation[k].response = "none"
Answer(k, verdict) == mutation' = [mutation EXCEPT ![k].response = verdict]

\* A wallet endpoint makes its persistence calls one after the other, outside
\* any database transaction (section 5): it reads the balance and checks the
\* amount, updates the balance, then inserts the transaction record(s).
Post_validate(k) ==
  /\ Awaiting(k)
  /\ handling[k] = "none"
  /\ IF Verdict(k) = "ok"
       THEN /\ handling' = [handling EXCEPT ![k] = "validated"]
            /\ UNCHANGED mutation
       ELSE /\ Answer(k, Verdict(k))
            /\ UNCHANGED handling
  /\ UNCHANGED <<wallet, transactions, balance, fetching, cooldown, toast, notWalletVars>>

Post_updateBalance(k) ==
  /\ handling[k] = "validated"
  /\ wallet' = Applied(k, wallet)
  /\ handling' = [handling EXCEPT ![k] = "updated"]
  /\ UNCHANGED <<transactions, balance, fetching, cooldown, mutation, toast, notWalletVars>>

Post_insertTransaction(k) ==
  /\ handling[k] = "updated"
  /\ transactions' = transactions \o Records(k)
  /\ handling' = [handling EXCEPT ![k] = "none"]
  /\ Answer(k, "ok")
  /\ UNCHANGED <<wallet, balance, fetching, cooldown, toast, notWalletVars>>

\* --- page
\* operations in a ledger: a swap writes two legs, the others one record
LedgerOps(txs) ==
  Cardinality({i \in 1..Len(txs) : txs[i].type # "swap"})
    + Cardinality({i \in 1..Len(txs) : txs[i].type = "swap"}) \div 2
\* the page submits nothing more once MaxOps operations are committed or under way
CanSubmit ==
  LedgerOps(transactions) + Cardinality({k \in Mutations : mutation[k].isPending}) < MaxOps

Mutate(k, body) ==
  mutation' = [mutation EXCEPT ![k] = [isPending |-> TRUE, body |-> <<body>>, response |-> "none"]]

\* the body swapMutation posts for a direction
SwapBody_sameCurrencies(a, direction) == [amount |-> a, fromCurrency |-> "money", toCurrency |-> "coins"]
SwapBody(a, direction) == [amount |-> a, fromCurrency |-> IF direction = "money-to-coins" THEN "money" ELSE "coins", toCurrency |-> IF direction = "money-to-coins" THEN "coins" ELSE "money"]

WithdrawAllowed_positiveOnly(a, currentBalance) == a > 0
WithdrawAllowed(a, currentBalance) == a > 0 /\ a <= currentBalance

\* the toast handleSwap answers with, "none" when it submits
SwapRefusal_noCoinsCheck(a, direction, currentBalance, currentCoins) == IF a <= 0 THEN "Invalid Amount" ELSE IF direction = "money-to-coins" /\ a > currentBalance THEN "Insufficient Balance" ELSE "none"
SwapRefusal(a, direction, currentBalance, currentCoins) ==
  IF a <= 0 THEN "Invalid Amount"
  ELSE IF direction = "money-to-coins" /\ a > currentBalance THEN "Insufficient Balance"
  ELSE IF direction = "coins-to-money" /\ a > currentCoins THEN "Insufficient Coins"
  ELSE "none"

\* the amount the conversion preview shows
PreviewReceive(a, direction) ==
  IF direction = "money-to-coins" THEN a * Rate ELSE a \div Rate

handleDeposit(a) ==
  /\ CanSubmit
  /\ ~mutation["deposit"].isPending
  /\ IF cooldown
       THEN /\ toast' = "Please Wait"
            /\ UNCHANGED <<cooldown, mutation>>
       ELSE IF a > 0
         THEN /\ cooldown' = TRUE
              /\ Mutate("deposit", [amount |-> a])
              /\ UNCHANGED toast
         ELSE UNCHANGED <<cooldown, mutation, toast>>
  /\ UNCHANGED <<wallet, transactions, handling, balance, fetching, notWalletVars>>

\* three seconds pass since the last deposit attempt
Elapse ==
  /\ cooldown
  /\ cooldown' = FALSE
  /\ UNCHANGED <<wallet, transactions, handling, balance, fetching, mutation, toast, notWalletVars>>

handleWithdraw(a) ==
  /\ CanSubmit
  /\ ~mutation["withdraw"].isPending
  /\ IF WithdrawAllowed(a, balance.balance)
       THEN /\ Mutate("withdraw", [amount |-> a])
            /\ UNCHANGED toast
       ELSE /\ toast' = "Invalid Amount"
            /\ UNCHANGED mutation
  /\ UNCHANGED <<wallet, transactions, handling, balance, fetching, cooldown, notWalletVars>>

handleSwap(a, direction) ==
  /\ CanSubmit
  /\ ~mutation["swap"].isPending
  /\ LET refusal == SwapRefusal(a, direction, balance.balance, balance.coins)
     IN  IF refusal = "none"
           THEN /\ Mutate("swap", SwapBody(a, direction))
                /\ UNCHANGED toast
           ELSE /\ toast' = refusal
                /\ UNCHANGED mutation
  /\ UNCHANGED <<wallet, transactions, handling, balance, fetching, cooldown, notWalletVars>>

SuccessToast(k) ==
  CASE k = "deposit" -> "Deposit Initiated"
    [] k = "withdraw" -> "Withdrawal Requested"
    [] k = "swap" -> "Swap Successful"
FailureToast(k) ==
  CASE k = "deposit" -> "Deposit Failed"
    [] k = "withdraw" -> "Withdrawal Failed"
    [] k = "swap" -> "Swap Failed"

\* the response arrives: the balance query is invalidated and refetched
onSuccess(k) ==
  /\ mutation[k].response = "ok"
  /\ toast' = SuccessToast(k)
  /\ fetching' = TRUE
  /\ mutation' = [mutation EXCEPT ![k] = IdleMutation]
  /\ UNCHANGED <<wallet, transactions, handling, balance, cooldown, notWalletVars>>

onError(k) ==
  /\ mutation[k].response \in {"invalid", "insufficient"}
  /\ toast' = FailureToast(k)
  /\ mutation' = [mutation EXCEPT ![k] = IdleMutation]
  /\ UNCHANGED <<wallet, transactions, handling, balance, fetching, cooldown, notWalletVars>>

\* the balance query's fetch completes
FetchBalance ==
  /\ fetching
  /\ balance' = wallet
  /\ fetching' = FALSE
  /\ UNCHANGED <<wallet, transactions, handling, cooldown, mutation, toast, notWalletVars>>

\* balances the user can start with, each with the ledger that explains it
InitWallets ==
  { <<NoBalance, <<>> >>,
    <<[balance |-> Amount(100), coins |-> 0], <<Tx("deposit", "money", Amount(100))>> >>,
    <<[balance |-> 0, coins |-> Amount(50)], <<Tx("bonus", "coins", Amount(50))>> >> }

InitWallet ==
  /\ AuthIdle
  /\ InitialsIdle
  /\ ChallengeIdle
  /\ LaterIdle
  /\ \E w \in InitWallets : wallet = w[1] /\ transactions = w[2]
  /\ handling = [k \in Mutations |-> "none"]
  /\ balance = NoBalance
  /\ fetching = TRUE
  /\ cooldown = FALSE
  /\ mutation = [k \in Mutations |-> IdleMutation]
  /\ toast = "none"

NextWallet ==
  \/ \E a \in DepositInputs : handleDeposit(a)
  \/ Elapse
  \/ \E a \in AmountInputs : handleWithdraw(a)
  \/ \E a \in AmountInputs, d \in Directions : handleSwap(a, d)
  \/ \E k \in Mutations : Post_validate(k)
  \/ \E k \in Mutations : Post_updateBalance(k)
  \/ \E k \in Mutations : Post_insertTransaction(k)
  \/ \E k \in Mutations : onSuccess(k)
  \/ \E k \in Mutations : onError(k)
  \/ FetchBalance

SpecWallet == InitWallet /\ [][NextWallet]_vars


\* ---------------------------------------------------------------- challenges
Statuses == {"pending", "open", "active", "pending_admin", "completed", "cancelled", "disputed"}
Viewers == {Ann, Bob, Cy}
Sides == {"yes", "no"}

\* peer challenges are between bob and cy; admin-created ones name no
\* challenger or challenged and have whoever joined as participants
InitChallenges ==
  {ChallengeRow(st, FALSE, "bob", "cy", FALSE, {}) : st \in Statuses \ {"open", "pending_admin"}}
    \cup {ChallengeRow(st, TRUE, "", "", pin, {}) :
            st \in Statuses \ {"pending"}, pin \in BOOLEAN}

\* --- card (src/unnamed/part_002)
Issue(req) ==
  /\ clicks < MaxClicks
  /\ clicks' = clicks + 1
  /\ requests' = [requests EXCEPT ![req] = @ + 1]

\* acceptChallengeMutation: POST /api/challenges/:id/accept
acceptChallenge ==
  /\ Issue(Request("accept", <<>>))
  /\ UNCHANGED <<challenge, viewer, card, refetching, showJoinModal, selectedChallenge, notChallengeVars>>

\* declineChallengeMutation: PATCH /api/challenges/:id
DeclineBody_completed == [status |-> "completed"]
DeclineBody == [status |-> "cancelled"]
declineChallenge ==
  /\ Issue(Request("patch", DeclineBody))
  /\ UNCHANGED <<challenge, viewer, card, refetching, showJoinModal, selectedChallenge, notChallengeVars>>

\* the pin button and pinChallengeMutation
PinVisible(u, c) == u.isAdmin /\ c.adminCreated
PinBody_alwaysPin(c) == [pin |-> TRUE]
PinBody(c) == [pin |-> ~c.isPinned]
pinChallenge ==
  /\ PinVisible(viewer, card)
  /\ Issue(Request("pin", PinBody(card)))
  /\ UNCHANGED <<challenge, viewer, card, refetching, showJoinModal, selectedChallenge, notChallengeVars>>

hasJoined(u, c) == u.id = c.challenger \/ u.id = c.challenged
JoinDisabled(u, c) == c.status = "completed" \/ c.status = "ended" \/ hasJoined(u, c)

\* a click on Yes or No: onJoin, which is handleJoin of the page
onJoin(side) ==
  /\ card.adminCreated
  /\ ~JoinDisabled(viewer, card)
  /\ selectedChallenge' = <<side>>
  /\ showJoinModal' = TRUE
  /\ UNCHANGED <<challenge, viewer, card, refetching, requests, clicks, notChallengeVars>>

\* onSuccess / onError of the three mutations: success invalidates /api/challenges
Settle(req) ==
  /\ requests[req] > 0
  /\ req.answer # "none"
  /\ requests' = [requests EXCEPT ![req] = @ - 1]
  /\ refetching' = (refetching \/ req.answer = "ok")
  /\ UNCHANGED <<challenge, viewer, card, clicks, showJoinModal, selectedChallenge, notChallengeVars>>

FetchChallenges ==
  /\ refetching
  /\ card' = CardOf(challenge)
  /\ refetching' = FALSE
  /\ UNCHANGED <<challenge, viewer, requests, clicks, showJoinModal, selectedChallenge, notChallengeVars>>

\* --- server (challenge lifecycle of the specification, section 4.5)
Answered_(req, verdict) ==
  requests' = [requests EXCEPT ![req] = @ - 1, ![[req EXCEPT !.answer = verdict]] = @ + 1]

\* the row a request leaves, the row itself when the request is refused
Served(req, by, row) ==
  CASE req.kind = "accept" ->
         IF ~row.adminCreated /\ row.status = "pending"
           THEN [row EXCEPT !.status = "active"] ELSE row
    [] req.kind = "patch" ->
         IF ~row.adminCreated /\ row.status = "pending"
           THEN [row EXCEPT !.status = req.body.status] ELSE row
    [] req.kind = "pin" ->
         IF by.isAdmin THEN [row EXCEPT !.isPinned = req.body.pin] ELSE row
Accepts(req, by, row) ==
  CASE req.kind = "accept" -> ~row.adminCreated /\ row.status = "pending"
    [] req.kind = "patch" -> ~row.adminCreated /\ row.status = "pending"
    [] req.kind = "pin" -> by.isAdmin

Serve(req) ==
  /\ requests[req] > 0
  /\ req.answer = "none"
  /\ challenge' = Served(req, viewer, challenge)
  /\ Answered_(req, IF Accepts(req, viewer, challenge) THEN "ok" ELSE "rejected")
  /\ UNCHANGED <<viewer, card, refetching, clicks, showJoinModal, selectedChallenge, notChallengeVars>>

\* join: admin-challenge only, not once completed or ended, not twice
JoinAllowed(u, row) ==
  /\ row.adminCreated
  /\ row.status \notin {"completed", "ended"}
  /\ u \notin row.participants
Joined(u, row, matched) ==
  [row EXCEPT !.participants = @ \cup {u},
              !.participantCount = @ + 1,
              !.status = IF @ = "open" /\ matched THEN "active" ELSE @]

\* the join modal posts the join of the viewer and closes
confirmJoin ==
  /\ showJoinModal
  /\ \E matched \in BOOLEAN :
       challenge' = IF JoinAllowed(viewer.id, challenge)
                      THEN Joined(viewer.id, challenge, matched) ELSE challenge
  /\ showJoinModal' = FALSE
  /\ refetching' = TRUE
  /\ UNCHANGED <<viewer, card, requests, clicks, selectedChallenge, notChallengeVars>>

closeJoinModal ==
  /\ showJoinModal
  /\ showJoinModal' = FALSE
  /\ UNCHANGED <<challenge, viewer, card, refetching, requests, clicks, selectedChallenge, notChallengeVars>>

\* another user joins from a page of their own
otherJoin(u) ==
  /\ u # viewer.id
  /\ JoinAllowed(u, challenge)
  /\ \E matched \in BOOLEAN : challenge' = Joined(u, challenge, matched)
  /\ UNCHANGED <<viewer, card, refetching, requests, clicks, showJoinModal, selectedChallenge, notChallengeVars>>

\* resolution and cancellation by an administrator
Resolutions ==
  {<<"open", "cancelled">>, <<"active", "completed">>, <<"active", "disputed">>,
   <<"pending_admin", "completed">>}
adminResolve(to) ==
  /\ <<challenge.status, to>> \in Resolutions
  /\ challenge' = [challenge EXCEPT !.status = to]
  /\ UNCHANGED <<viewer, card, refetching, requests, clicks, showJoinModal, selectedChallenge, notChallengeVars>>

InitChallenge ==
  /\ AuthIdle
  /\ InitialsIdle
  /\ WalletIdle
  /\ LaterIdle
  /\ challenge \in InitChallenges
  /\ viewer \in Viewers
  /\ card = CardOf(challenge)
  /\ refetching = FALSE
  /\ requests = NoRequests
  /\ clicks = 0
  /\ showJoinModal = FALSE
  /\ selectedChallenge = <<>>

NextChallenge ==
  \/ acceptChallenge
  \/ declineChallenge
  \/ pinChallenge
  \/ \E side \in Sides : onJoin(side)
  \/ \E req \in RequestStates : Settle(req)
  \/ FetchChallenges
  \/ \E req \in RequestStates : Serve(req)
  \/ confirmJoin
  \/ closeJoinModal
  \/ \E u \in {"bob", "cy"} : otherJoin(u)
  \/ \E to \in Statuses : adminResolve(to)

SpecChallenge == InitChallenge /\ [][NextChallenge]_vars


\* ---------------------------------------------------------------- create challenge
\* a title is kept as its length; the stake is the text of a number input,
\* empty or a number
TitleLengths == {0, 1, 200, 201}
StakeInputs == {<<>>, <<Amount(-10)>>, <<0>>, <<Amount(50)>>, <<Amount(100)>>, <<Amount(150)>>}
FormInputs == [challenged : {"", "cy"}, title : TitleLengths, category : {"", "sports"}, amount : StakeInputs]

createChallengeSchema(f) ==
  /\ f.challenged # ""
  /\ f.title >= 1 /\ f.title <= 200
  /\ f.category # ""
  /\ Len(f.amount) >= 1

\* parseFloat(data.amount) > currentBalance; parseFloat of no text is NaN,
\* which is greater than nothing
StakeExceeds_never(f, currentBalance) == FALSE
StakeExceeds(f, currentBalance) == f.amount # <<>> /\ f.amount[1] > currentBalance

\* form.handleSubmit(onSubmit): what keeps the request from being sent, "none"
\* when it is sent
CreateRefusal(f, currentBalance) ==
  IF ~createChallengeSchema(f) THEN "invalid"
  ELSE IF StakeExceeds(f, currentBalance) THEN "Insufficient Balance"
  ELSE "none"

\* a click on the submit button, disabled while the mutation is pending
onSubmit(f) ==
  /\ ~creation.isPending
  /\ form' = f
  /\ LET refusal == CreateRefusal(f, balance.balance) IN
       /\ creation' = IF refusal = "none"
                        THEN [isPending |-> TRUE, body |-> <<f>>, response |-> "none"]
                        ELSE creation
       /\ toast' = IF refusal = "Insufficient Balance" THEN refusal ELSE toast
  /\ UNCHANGED <<created, wallet, transactions, handling, balance, fetching, cooldown, mutation>>
  /\ UNCHANGED notCreateVars

\* POST /api/challenges: the fields must be present, and the stake is put in
\* escrow, which the creator's balance must cover
CreateVerdict(d, w) ==
  IF d.challenged = "" \/ d.title = 0 \/ d.category = "" \/ d.amount = <<>> THEN "invalid"
  ELSE IF d.amount[1] <= 0 THEN "invalid"
  ELSE IF d.amount[1] > w.balance THEN "insufficient"
  ELSE "ok"
Post_challenges ==
  /\ creation.isPending
  /\ creation.response = "none"
  /\ LET d == creation.body[1]
         verdict == CreateVerdict(d, wallet)
     IN  /\ creation' = [creation EXCEPT !.response = verdict]
         /\ IF verdict = "ok"
              THEN /\ wallet' = [wallet EXCEPT !.balance = @ - d.amount[1]]
                   /\ transactions' = Append(transactions, Tx("escrow", "money", 0 - d.amount[1]))
                   /\ created' = Append(created, d.amount[1])
              ELSE UNCHANGED <<wallet, transactions, created>>
  /\ UNCHANGED <<form, handling, balance, fetching, cooldown, mutation, toast>>
  /\ UNCHANGED notCreateVars

\* onSuccess / onError of createChallengeMutation; success resets the form and
\* invalidates /api/challenges, not the balance
createSettled ==
  /\ creation.response # "none"
  /\ creation' = IdleMutation
  /\ toast' = IF creation.response = "ok" THEN "Challenge Created" ELSE "Error"
  /\ form' = IF creation.response = "ok" THEN NoForm ELSE form
  /\ UNCHANGED <<created, wallet, transactions, handling, balance, fetching, cooldown, mutation>>
  /\ UNCHANGED notCreateVars

\* refetchOnReconnect: the balance query is fetched again
onReconnect ==
  /\ ~fetching
  /\ fetching' = TRUE
  /\ UNCHANGED <<wallet, transactions, handling, balance, cooldown, mutation, toast, notWalletVars>>

InitCreate ==
  /\ AuthIdle
  /\ InitialsIdle
  /\ ChallengeIdle
  /\ \E w \in InitWallets : wallet = w[1] /\ transactions = w[2]
  /\ handling = [k \in Mutations |-> "none"]
  /\ balance = NoBalance
  /\ fetching = TRUE
  /\ cooldown = FALSE
  /\ mutation = [k \in Mutations |-> IdleMutation]
  /\ toast = "none"
  /\ CreateIdle /\ NotifIdle /\ TokenIdle /\ PopupIdle /\ ClockIdle

NextCreate ==
  \/ \E f \in FormInputs : onSubmit(f)
  \/ Post_challenges
  \/ createSettled
  \/ FetchBalance
  \/ onReconnect

SpecCreate == InitCreate /\ [][NextCreate]_vars

\* ---------------------------------------------------------------- notifications
\* parseInt(s, 10) of a text: the leading digits after an optional sign, NaN
\* (no value) when there are none
RECURSIVE LeadingDigits(_)
LeadingDigits(s) ==
  IF s = <<>> \/ Head(s) \notin Range(Digits) THEN <<>> ELSE <<Head(s)>> \o LeadingDigits(Tail(s))
RECURSIVE DigitsValue(_)
DigitsValue(s) ==
  IF s = <<>> THEN 0
  ELSE 10 * DigitsValue(SubSeq(s, 1, Len(s) - 1)) + ((CHOOSE i \in 1..10 : Digits[i] = s[Len(s)]) - 1)
parseInt(s) ==
  LET negative == s # <<>> /\ Head(s) = "-"
      run == LeadingDigits(IF negative THEN Tail(s) ELSE s)
  IN  IF run = <<>> THEN <<>>
      ELSE <<IF negative THEN 0 - DigitsValue(run) ELSE DigitsValue(run)>>
\* parseInt(s) || d
ParseOr(s, d) == IF parseInt(s) = <<>> \/ parseInt(s) = <<0>> THEN d ELSE parseInt(s)[1]

NotificationUsers == {"u1", "u2"}
Notification(id, userId, read, createdAt) == [id |-> id, userId |-> userId, read |-> read, createdAt |-> createdAt]
\* the notifications table before the requests: two of u1, the older unread
\* and the newer read, and one of u2
InitNotificationRows ==
  {Notification("n1", "u1", FALSE, 1), Notification("n2", "u1", TRUE, 2),
   Notification("n3", "u2", FALSE, 3)}

\* the routes of the router, in the order they are registered; a segment is
\* literal text or a parameter
Lit(s) == <<"lit", s>>
Param(s) == <<"param", s>>
Route(method, pattern) == [method |-> method, pattern |-> pattern]
Routes ==
  << Route("GET", <<>>),
     Route("GET", <<Lit("unread-count")>>),
     Route("PUT", <<Param("id"), Lit("read")>>),
     Route("PATCH", <<Param("id"), Lit("read")>>),
     Route("PUT", <<Lit("read-all")>>),
     Route("DELETE", <<Param("id")>>),
     Route("DELETE", <<Lit("clear-all")>>),
     Route("GET", <<Lit("preferences")>>),
     Route("PUT", <<Lit("preferences")>>),
     Route("POST", <<Lit("mute-challenge"), Param("challengeId")>>),
     Route("POST", <<Lit("unmute-challenge"), Param("challengeId")>> ) >>
GetList == 1
MarkReadPut == 3
MarkReadPatch == 4
ReadAll == 5
DeleteOne == 6
ClearAll == 7
MuteChallenge == 10
UnmuteChallenge == 11
Matches(route, method, path) ==
  /\ route.method = method
  /\ Len(route.pattern) = Len(path)
  /\ \A i \in 1..Len(path) : route.pattern[i][1] = "param" \/ route.pattern[i][2] = path[i]
\* the first route registered that matches, 0 when none does
Dispatch(method, path) ==
  LET hits == {i \in 1..Len(Routes) : Matches(Routes[i], method, path)}
  IN  IF hits = {} THEN 0 ELSE CHOOSE i \in hits : \A j \in hits : i <= j
\* req.params of the matched route
ParamOf(route, path, name) ==
  LET at == {i \in 1..Len(path) : route.pattern[i] = Param(name)}
  IN  IF at = {} THEN "" ELSE path[CHOOSE i \in at : TRUE]

NoQuery == [limit |-> <<>>, offset |-> <<>>]
NotifRequest(method, path, user, query) == [method |-> method, path |-> path, user |-> user, query |-> query]
IdleNotifRequest ==
  [pc |-> "idle", req |-> NotifRequest("", <<>>, <<>>, NoQuery), handler |-> 0, status |-> 0,
   found |-> {}, data |-> <<>>, total |-> <<>>, mutedChallenges |-> <<>>]
NotifSlots == 1..MaxNotifReqs

\* --- the database and the notification service
\* .orderBy(desc(createdAt))
RECURSIVE OrderByCreatedAtDesc(_)
OrderByCreatedAtDesc(rows) ==
  IF rows = {} THEN <<>>
  ELSE LET newest == CHOOSE x \in rows : \A y \in rows : y.createdAt <= x.createdAt
       IN  <<newest>> \o OrderByCreatedAtDesc(rows \ {newest})
\* .limit(limit).offset(offset)
LimitOffset(s, limit, offset) ==
  SubSeq(s, offset + 1, IF offset + limit < Len(s) THEN offset + limit ELSE Len(s))
OwnedBy(userId) == {n \in notifications : n.userId = userId}
SelectOwned_anyOwner(id, userId) == {n \in notifications : n.id = id}
SelectOwned(id, userId) == {n \in notifications : n.id = id /\ n.userId = userId}
markAsRead(id) == {IF n.id = id THEN [n EXCEPT !.read = TRUE] ELSE n : n \in notifications}
MarkAllRead(userId) ==
  {IF n.userId = userId /\ ~n.read THEN [n EXCEPT !.read = TRUE] ELSE n : n \in notifications}
DeleteOwned(id, userId) == {n \in notifications : ~(n.id = id /\ n.userId = userId)}
clearAllNotifications(userId) == {n \in notifications : n.userId # userId}
\* mutedChallenges of the user's preference row, [] when there is none
StoredMuted(userId) == IF prefs[userId] = <<>> THEN <<>> ELSE prefs[userId][1].mutedChallenges
updateUserPreferences(userId, muted) == [prefs EXCEPT ![userId] = <<[mutedChallenges |-> muted]>>]

\* --- the handlers
Includes(s, x) == \E i \in 1..Len(s) : s[i] = x
PushIfAbsent(s, x) == IF Includes(s, x) THEN s ELSE Append(s, x)
Without(s, x) == SelectSeq(s, LAMBDA y : y # x)

Finish(q, status) == [q EXCEPT !.pc = "done", !.status = status]

\* a request arrives: the router picks the route, ensureAuth answers 401
\* without a user id, the handler runs up to its first database call
Receive(r, req) ==
  /\ nrq[r].pc = "idle"
  /\ \A s \in NotifSlots : s < r => nrq[s].pc # "idle"
  /\ LET h == Dispatch(req.method, req.path)
         q == [IdleNotifRequest EXCEPT !.req = req, !.handler = h]
     IN  nrq' = [nrq EXCEPT ![r] =
                   IF h = 0 THEN Finish(q, 404)
                   ELSE IF req.user = <<>> THEN Finish(q, 401)
                   ELSE [q EXCEPT !.pc = IF h \in {ReadAll, ClearAll} THEN "write" ELSE "select"]]
  /\ UNCHANGED <<notifications, prefs, notNotifVars>>

\* the first database call of a handler returns
Selected(r) ==
  /\ nrq[r].pc = "select"
  /\ LET q == nrq[r]
         userId == q.req.user[1]
         id == ParamOf(Routes[q.handler], q.req.path, "id")
         challengeId == ParamOf(Routes[q.handler], q.req.path, "challengeId")
         limit == ParseOr(q.req.query.limit, 20)
         offset == ParseOr(q.req.query.offset, 0)
     IN  /\ q.handler = GetList => limit >= 0 /\ offset >= 0
         /\ nrq' = [nrq EXCEPT ![r] =
              CASE q.handler = GetList ->
                     [q EXCEPT !.pc = "count",
                               !.data = LimitOffset(OrderByCreatedAtDesc(OwnedBy(userId)), limit, offset)]
                [] q.handler \in {MarkReadPut, MarkReadPatch, DeleteOne} ->
                     IF SelectOwned(id, userId) = {}
                       THEN Finish(q, 404)
                       ELSE [q EXCEPT !.pc = "write", !.found = SelectOwned(id, userId)]
                [] q.handler = MuteChallenge ->
                     [q EXCEPT !.pc = "write",
                               !.mutedChallenges = PushIfAbsent(StoredMuted(userId), challengeId)]
                [] q.handler = UnmuteChallenge ->
                     [q EXCEPT !.pc = "write",
                               !.mutedChallenges = Without(StoredMuted(userId), challengeId)]
                [] OTHER -> q]
  /\ UNCHANGED <<notifications, prefs, notNotifVars>>

\* the count query of GET / returns
Counted(r) ==
  /\ nrq[r].pc = "count"
  /\ nrq' = [nrq EXCEPT ![r] =
               [Finish(nrq[r], 200) EXCEPT !.total = <<Cardinality(OwnedBy(nrq[r].req.user[1]))>>]]
  /\ UNCHANGED <<notifications, prefs, notNotifVars>>

\* the write of a handler is done, and the handler answers
Written(r) ==
  /\ nrq[r].pc = "write"
  /\ LET q == nrq[r]
         userId == q.req.user[1]
         id == ParamOf(Routes[q.handler], q.req.path, "id")
     IN  /\ notifications' =
              CASE q.handler \in {MarkReadPut, MarkReadPatch} -> markAsRead(id)
                [] q.handler = ReadAll -> MarkAllRead(userId)
                [] q.handler = DeleteOne -> DeleteOwned(id, userId)
                [] q.handler = ClearAll -> clearAllNotifications(userId)
                [] OTHER -> notifications
         /\ prefs' =
              IF q.handler \in {MuteChallenge, UnmuteChallenge}
                THEN updateUserPreferences(userId, q.mutedChallenges)
                ELSE prefs
         /\ nrq' = [nrq EXCEPT ![r] = Finish(q, 200)]
  /\ UNCHANGED notNotifVars

\* a database call throws: the catch of the handler answers 500
Threw(r) ==
  /\ nrq[r].pc \in {"select", "count", "write"}
  /\ nrq' = [nrq EXCEPT ![r] = Finish(nrq[r], 500)]
  /\ UNCHANGED <<notifications, prefs, notNotifVars>>

\* the requests on notifications: ids that exist, one that does not, and the
\* literal paths
ListQueries ==
  {NoQuery, [limit |-> <<"1">>, offset |-> <<>>], [limit |-> <<"1">>, offset |-> <<"1">>],
   [limit |-> <<"0">>, offset |-> <<"x">>], [limit |-> <<"-", "1">>, offset |-> <<>>]}
NotificationInputs ==
  {NotifRequest("GET", <<>>, <<"u1">>, qy) : qy \in ListQueries}
    \cup {NotifRequest(mt, <<id, "read">>, <<"u1">>, NoQuery) : mt \in {"PUT", "PATCH"}, id \in {"n1", "n3", "n9"}}
    \cup {NotifRequest("DELETE", <<id>>, <<"u1">>, NoQuery) : id \in {"n1", "n3", "n9", "clear-all"}}
    \cup {NotifRequest("PUT", <<"read-all">>, <<"u1">>, NoQuery),
          NotifRequest("PUT", <<"n3", "read">>, <<"u2">>, NoQuery),
          NotifRequest("DELETE", <<"n3">>, <<"u2">>, NoQuery),
          NotifRequest("DELETE", <<"n1">>, <<>>, NoQuery)}
MuteInputs ==
  {NotifRequest("POST", <<op, c>>, <<"u1">>, NoQuery) :
     op \in {"mute-challenge", "unmute-challenge"}, c \in {"c1", "c2"}}

InitNotifications ==
  /\ FrontIdle /\ CreateIdle /\ TokenIdle /\ PopupIdle /\ ClockIdle
  /\ notifications = InitNotificationRows
  /\ prefs = [u \in NotificationUsers |-> <<>>]
  /\ nrq = [r \in NotifSlots |-> IdleNotifRequest]
NextNotifications ==
  \/ \E r \in NotifSlots, req \in NotificationInputs : Receive(r, req)
  \/ \E r \in NotifSlots : Selected(r)
  \/ \E r \in NotifSlots : Counted(r)
  \/ \E r \in NotifSlots : Written(r)
  \/ \E r \in NotifSlots : Threw(r)
SpecNotifications == InitNotifications /\ [][NextNotifications]_vars

\* mute and unmute requests of one user, from no preference row or from one
\* with c1 muted
InitMute ==
  /\ FrontIdle /\ CreateIdle /\ TokenIdle /\ PopupIdle /\ ClockIdle
  /\ notifications = InitNotificationRows
  /\ prefs \in {[u \in NotificationUsers |-> <<>>],
                [u \in NotificationUsers |-> IF u = "u1" THEN <<[mutedChallenges |-> <<"c1">>]>> ELSE <<>>]}
  /\ nrq = [r \in NotifSlots |-> IdleNotifRequest]
NextMute ==
  \/ \E r \in NotifSlots, req \in MuteInputs : Receive(r, req)
  \/ \E r \in NotifSlots : Selected(r)
  \/ \E r \in NotifSlots : Written(r)
  \/ \E r \in NotifSlots : Threw(r)
SpecMute == InitMute /\ [][NextMute]_vars

\* concurrent logins: the requests carry tokens that verify to the same
\* claims and are handled at the same time, each in a slot of its own
NextConcurrent ==
  \E r \in Reqs :
    /\ rq[r].pc # "done"
    /\ Step(r)

SpecConcurrent == InitRepeat /\ [][NextConcurrent]_vars

\* ---------------------------------------------------------------- client token cache
\* queryClient.ts: the module variable and its accessors
setAuthToken(token) == cachedAuthToken' = token
getAuthToken == cachedAuthToken
\* the Authorization header apiRequest attaches, none without a token
AuthorizationHeader == IF getAuthToken # <<>> THEN <<"Bearer", getAuthToken[1]>> ELSE <<>>

\* tokens are told apart by the login they belong to
CurrentSession == authChanges

\* usePrivy() reports ready, with or without a user already logged in
privyReady ==
  /\ ~ready
  /\ ready' = TRUE
  /\ \E restored \in BOOLEAN : authenticated' = restored
  /\ effectDue' = TRUE
  /\ UNCHANGED <<cachedAuthToken, tokenFetches, authChanges, notTokenVars>>

\* the user logs in or out; the effect of the last change has run by then
authChange ==
  /\ ready
  /\ ~effectDue
  /\ authChanges < MaxAuthChanges
  /\ authenticated' = ~authenticated
  /\ authChanges' = authChanges + 1
  /\ effectDue' = TRUE
  /\ UNCHANGED <<ready, cachedAuthToken, tokenFetches, notTokenVars>>

\* the effect of useAuth (lines 22-57) up to the await: it starts
\* getAccessToken when authenticated and clears the token otherwise
useAuthEffect ==
  /\ effectDue
  /\ effectDue' = FALSE
  /\ IF ~ready
       THEN UNCHANGED <<cachedAuthToken, tokenFetches>>
       ELSE IF authenticated
         THEN /\ tokenFetches' = Append(tokenFetches, CurrentSession)
              /\ UNCHANGED cachedAuthToken
         ELSE /\ setAuthToken(<<>>)
              /\ UNCHANGED tokenFetches
  /\ UNCHANGED <<ready, authenticated, authChanges, notTokenVars>>

\* a getAccessToken call settles: with the token of the login it was started
\* in, with no token, or by throwing
getAccessToken_settles(i) ==
  /\ i \in 1..Len(tokenFetches)
  /\ tokenFetches' = [j \in 1..(Len(tokenFetches) - 1) |->
                        IF j < i THEN tokenFetches[j] ELSE tokenFetches[j + 1]]
  /\ \E outcome \in {"token", "null", "throws"} :
       CASE outcome = "token" -> setAuthToken(<<tokenFetches[i]>>)
         [] outcome = "null" -> UNCHANGED cachedAuthToken
         [] outcome = "throws" -> setAuthToken(<<>>)
  /\ UNCHANGED <<ready, authenticated, effectDue, authChanges, notTokenVars>>

InitToken ==
  /\ FrontIdle /\ CreateIdle /\ NotifIdle /\ PopupIdle /\ ClockIdle
  /\ ready = FALSE
  /\ authenticated = FALSE
  /\ cachedAuthToken = <<>>
  /\ tokenFetches = <<>>
  /\ effectDue = TRUE
  /\ authChanges = 0

NextToken ==
  \/ privyReady
  \/ authChange
  \/ useAuthEffect
  \/ \E i \in 1..MaxAuthChanges : getAccessToken_settles(i)

SpecToken == InitToken /\ [][NextToken]_vars

\* ---------------------------------------------------------------- extension popup
\* String(n) for an integer, as the DOM stores a number assigned to input.value
RECURSIVE NaturalText(_)
NaturalText(n) == IF n < 10 THEN <<Digits[n + 1]>> ELSE NaturalText(n \div 10) \o <<Digits[(n % 10) + 1]>>
NumberText(n) == IF n < 0 THEN <<"-">> \o NaturalText(0 - n) ELSE NaturalText(n)
MathMax(a, b) == IF a >= b THEN a ELSE b

\* what the user may type into the interval input
IntervalTexts == {<<>>, <<"0">>, <<"x">>, <<"3">>, <<"7">>, <<"-", "2">>, <<"1", "2">>}

\* chrome.storage.sync.get with its defaults (lines 166-172)
getSettings ==
  IF settings = <<>> THEN [bantah_notify |-> TRUE, bantah_interval_minutes |-> 5] ELSE settings[1]
saveSettings(s) == settings' = <<s>>
AlarmCreate(minutes) == alarm' = <<MathMax(1, minutes)>>
AlarmClear == alarm' = <<>>

\* the popup opens: the inputs are filled from the saved settings
DOMContentLoaded ==
  /\ popup = <<>>
  /\ popup' = <<[notifyToggle |-> getSettings.bantah_notify # FALSE,
                 intervalInput |-> NumberText(IF getSettings.bantah_interval_minutes = 0 THEN 5
                                              ELSE getSettings.bantah_interval_minutes)]>>
  /\ UNCHANGED <<settings, alarm, notPopupVars>>

\* the user edits the interval input
typeInterval ==
  /\ popup # <<>>
  /\ \E t \in IntervalTexts : popup' = <<[popup[1] EXCEPT !.intervalInput = t]>>
  /\ UNCHANGED <<settings, alarm, notPopupVars>>

\* click on save-url (lines 203-211)
saveClick ==
  /\ popup # <<>>
  /\ LET minutes == ParseOr(popup[1].intervalInput, 5)
         notify == popup[1].notifyToggle
     IN  /\ saveSettings([bantah_notify |-> notify, bantah_interval_minutes |-> minutes])
         /\ AlarmCreate(minutes)
  /\ popup' = <<>>
  /\ UNCHANGED notPopupVars

\* the user flips the checkbox and its change handler runs (lines 223-231)
notifyToggleChange ==
  /\ popup # <<>>
  /\ LET checked == ~popup[1].notifyToggle
         minutes == ParseOr(popup[1].intervalInput, 5)
     IN  /\ popup' = <<[popup[1] EXCEPT !.notifyToggle = checked]>>
         /\ saveSettings([bantah_notify |-> checked, bantah_interval_minutes |-> minutes])
         /\ IF checked THEN AlarmCreate(minutes) ELSE AlarmClear
  /\ UNCHANGED notPopupVars

\* the popup is dismissed without saving
popupDismissed ==
  /\ popup # <<>>
  /\ popup' = <<>>
  /\ UNCHANGED <<settings, alarm, notPopupVars>>

InitPopup ==
  /\ FrontIdle /\ CreateIdle /\ NotifIdle /\ TokenIdle /\ ClockIdle
  /\ settings = <<>>
  /\ alarm = <<>>
  /\ popup = <<>>

NextPopup ==
  \/ DOMContentLoaded
  \/ typeInterval
  \/ saveClick
  \/ notifyToggleChange
  \/ popupDismissed

SpecPopup == InitPopup /\ [][NextPopup]_vars

\* ---------------------------------------------------------------- deposit cooldown, timed
\* Date.now() when the wallet page is mounted, in milliseconds
Epoch == 10000
\* the delays between two events on the page, in milliseconds
TickSteps == {1000, 2999, 3000}

\* an invocation of handleDeposit: when, with what amount, and whether it
\* called depositMutation.mutate
Attempt(at, amount, submitted) == [at |-> at, amount |-> amount, submitted |-> submitted]

\* now - lastDepositAttempt < 3000 (line 216)
InCooldown_never(t) == FALSE
InCooldown(t) == t - lastDepositAttempt < 3000

\* time passes
Tick ==
  /\ \E d \in TickSteps :
       /\ now + d <= Epoch + MaxElapsed
       /\ now' = now + d
  /\ UNCHANGED <<lastDepositAttempt, depositLog, notClockVars>>

\* handleDeposit (lines 211-229), with the reading of the clock
handleDepositAt(a) ==
  /\ Len(depositLog) < MaxAttempts
  /\ IF InCooldown(now)
       THEN /\ depositLog' = Append(depositLog, Attempt(now, a, FALSE))
            /\ UNCHANGED lastDepositAttempt
       ELSE IF a > 0
         THEN /\ lastDepositAttempt' = now
              /\ depositLog' = Append(depositLog, Attempt(now, a, TRUE))
         ELSE /\ depositLog' = Append(depositLog, Attempt(now, a, FALSE))
              /\ UNCHANGED lastDepositAttempt
  /\ UNCHANGED <<now, notClockVars>>

InitCooldown ==
  /\ FrontIdle /\ CreateIdle /\ NotifIdle /\ TokenIdle /\ PopupIdle
  /\ now = Epoch
  /\ lastDepositAttempt = 0
  /\ depositLog = <<>>

NextCooldown ==
  \/ Tick
  \/ \E a \in DepositInputs : handleDepositAt(a)

SpecCooldown == InitCooldown /\ [][NextCooldown]_vars


\* ================================================================ claims
Done(r) == rq[r].pc = "done"
Started(r) == rq[r].pc # "idle"
\* the storage operations a request has called
Ops(r) == {rq[r].calls[i][1] : i \in 1..Len(rq[r].calls)}
\* the request left everything outside the response untouched
Untouched(r) == rq[r].verifyCalls = 0 /\ rq[r].calls = <<>>
\* the request carries no session identity
NoSessionIdentity(s) ==
  \/ s.isAuth \in {"missing", "false"}
  \/ (~s.throws /\ s.user = <<>>)

\* C1: a request with no Authorization header and no authenticated session
\* identity is answered 401, next() is not called, no token is verified and the
\* user store is neither read nor written.
C1_MissingCredential ==
  \A r \in Reqs :
    (Started(r) /\ rq[r].authHeader = <<>> /\ NoSessionIdentity(rq[r].session))
      => /\ Done(r)
         /\ rq[r].status = 401 /\ rq[r].responses = 1
         /\ rq[r].nextCalls = 0
         /\ Untouched(r)
C1_Witness ==
  \E r \in Reqs :
    /\ Done(r) /\ rq[r].authHeader = <<>>
    /\ rq[r].session.isAuth = "missing" /\ rq[r].session.user # <<>>
    /\ rq[r].status = 401

\* C2: a request with an Authorization header whose token does not verify
\* (null, or the verification call throws) or whose claims carry neither userId
\* nor sub is answered 401, never 500; next() is not called and no user-store
\* operation is made.
C2_InvalidToken ==
  \A r \in Reqs :
    (/\ rq[r].authHeader # <<>>
     /\ rq[r].verifyCalls > 0
     /\ \/ rq[r].claims = <<>>
        \/ (rq[r].claims[1].userId = <<>> /\ rq[r].claims[1].sub = <<>>))
      => /\ Done(r)
         /\ rq[r].status = 401 /\ rq[r].responses = 1
         /\ rq[r].nextCalls = 0
         /\ rq[r].calls = <<>>
         /\ rq[r].user = rq[r].session.user
C2_Witness ==
  \E r \in Reqs :
    /\ Done(r) /\ rq[r].authHeader # <<>> /\ rq[r].verifyThrew
    /\ rq[r].status = 401

\* the storage outcomes that make upsertPrivyUser throw or return no user
UpsertBroke(r) ==
  \E i \in 1..Len(rq[r].calls) :
    rq[r].calls[i] \in { <<"getUserByEmail", "throws">>, <<"upsertUser", "throws">>,
                         <<"upsertUser", "empty">>,
                         <<"updateUserTelegramInfo", "throws">> }

\* C3: when the token verifies with a subject id but the upsert yields no user
\* or fails, the request is answered 500, req.user is not replaced by a
\* normalized identity and next() is not called.
C3_UpsertFailure ==
  \A r \in Reqs :
    UpsertBroke(r)
      => /\ Done(r)
         /\ rq[r].status = 500 /\ rq[r].responses = 1
         /\ rq[r].nextCalls = 0
         /\ rq[r].user = rq[r].session.user
C3_Witness ==
  \E r \in Reqs :
    /\ Done(r) /\ rq[r].status = 500
    /\ rq[r].calls # <<>>
    /\ rq[r].calls[Len(rq[r].calls)] = <<"upsertUser", "empty">>
    /\ rq[r].message = "Failed to create or retrieve user"

\* C4: a request with no Authorization header, req.isAuthenticated() true and
\* a non-empty req.user goes to next() with req.user unchanged; no response is
\* sent, no token is verified and the user store is neither read nor written.
C4_SessionFallback ==
  \A r \in Reqs :
    (/\ Started(r) /\ rq[r].authHeader = <<>>
     /\ rq[r].session.isAuth = "true" /\ ~rq[r].session.throws
     /\ rq[r].session.user # <<>>)
      => /\ Done(r)
         /\ rq[r].nextCalls = 1
         /\ rq[r].user = rq[r].session.user
         /\ rq[r].responses = 0 /\ rq[r].status = 0
         /\ Untouched(r)
C4_Witness ==
  \E r \in Reqs :
    /\ Done(r) /\ rq[r].authHeader = <<>> /\ rq[r].session.isAuth = "true"
    /\ rq[r].session.user # <<>> /\ rq[r].nextCalls = 1

\* C5: when verification succeeds and the upsert returns a user u, req.user
\* has id = u.id, claims.sub = u.id, claims.email = u.email, first and last
\* name mirrored in both objects and isAdmin = u.isAdmin (false when absent),
\* and next() is called.
C5_NormalizedIdentity ==
  \A r \in Reqs :
    (Done(r) /\ rq[r].returned # <<>>)
      => LET u == rq[r].returned[1] IN
         /\ rq[r].user # <<>>
         /\ LET id == rq[r].user[1] IN
            /\ id.id = u.id
            /\ id.claims.sub = u.id
            /\ id.claims.email = u.email
            /\ id.firstName = u.firstName /\ id.claims.first_name = u.firstName
            /\ id.lastName = u.lastName /\ id.claims.last_name = u.lastName
            /\ id.isAdmin = (u.isAdmin = "yes")
         /\ rq[r].nextCalls = 1
         /\ rq[r].responses = 0
C5_Witness ==
  \E r \in Reqs :
    /\ Done(r) /\ rq[r].returned # <<>>
    /\ rq[r].returned[1].isAdmin = "absent"
    /\ rq[r].nextCalls = 1
    /\ rq[r].user[1].isAdmin = FALSE

\* the subject id and the e-mail (given or synthetic) of a claims object
SubjectOf(c) == IF c.userId # <<>> THEN c.userId ELSE c.sub
EmailOf(c) == IF c.email # <<>> THEN c.email ELSE SubjectOf(c) \o Txt_privy_user
\* how often a request called a storage operation, and with what outcome
CallCount(r, op) ==
  Cardinality({i \in 1..Len(rq[r].calls) : rq[r].calls[i][1] = op})
OkCalls(op) ==
  UNION {{<<r, i>> : i \in {j \in 1..Len(rq[r].calls) : rq[r].calls[j] = <<op, "ok">>}} :
         r \in Reqs}
NoFaultIn(r) == \A i \in 1..Len(rq[r].calls) : rq[r].calls[i][2] = "ok"
\* the claims hold a linked account of type telegram with a telegramUserId
HasTelegramClaim(c) ==
  \E i \in 1..Len(c.linkedAccounts) :
    c.linkedAccounts[i].type = "telegram" /\ c.linkedAccounts[i].telegramUserId # 0

\* C6: from a store with no user of the claims' subject id and no user of the
\* claims' (given or synthetic) e-mail, sequential upsertPrivyUser calls with
\* identical claims and no storage fault create exactly one user: upsertUser
\* is called once, by the first call, and every call returns that same user.
C6_UpsertIdempotent ==
  (/\ fixed # <<>>
   /\ \A u \in users0 : u.id # SubjectOf(fixed[1]) /\ u.email # EmailOf(fixed[1])
   /\ faults = 0)
    => \A r \in Reqs :
         /\ CallCount(r, "upsertUser") <= (IF r = 1 THEN 1 ELSE 0)
         /\ Done(r) =>
              /\ CallCount(r, "upsertUser") = (IF r = 1 THEN 1 ELSE 0)
              /\ rq[r].returned # <<>>
              /\ rq[r].returned[1].id = SubjectOf(fixed[1])
              /\ rq[r].returned = rq[1].returned
              /\ rq[r].returned[1] \in users
              /\ Cardinality(users) = Cardinality(users0) + 1
C6_Witness ==
  /\ fixed # <<>> /\ faults = 0
  /\ \A u \in users0 : u.id # SubjectOf(fixed[1]) /\ u.email # EmailOf(fixed[1])
  /\ Done(1) /\ Done(2)
  /\ CallCount(1, "upsertUser") = 1 /\ CallCount(2, "upsertUser") = 0
  /\ rq[2].returned = rq[1].returned /\ rq[2].returned # <<>>
  /\ rq[2].returned[1].telegramId # <<>>

\* C7: when the subject id matches no stored user and the e-mail of the claims
\* matches a user with another id, the e-mail lookup, unless it throws, returns
\* that user; upsertUser is not called and the users table is unchanged.
C7_ReconcileByEmail ==
  [][\A r \in Reqs :
       LET q == rq[r]
           matches == {u \in users : u.email = EmailOf(q.claims[1])
                                     /\ u.id # SubjectOf(q.claims[1])}
       IN  (/\ q.pc = "getUserByEmail"
            /\ \A u \in users : u.id # SubjectOf(q.claims[1])
            /\ matches # {}
            /\ rq'[r] # q
            /\ rq'[r].calls[Len(rq'[r].calls)][2] = "ok")
             => /\ rq'[r].pc = "done"
                /\ rq'[r].returned # <<>>
                /\ rq'[r].returned[1] \in matches
                /\ rq'[r].nextCalls = 1
                /\ \A i \in 1..Len(rq'[r].calls) : rq'[r].calls[i][1] # "upsertUser"
                /\ users' = users]_vars
C7_Witness ==
  \E r \in Reqs :
    /\ Done(r) /\ rq[r].returned # <<>>
    /\ rq[r].returned[1].id # SubjectOf(rq[r].claims[1])
    /\ rq[r].returned[1].email = rq[r].claims[1].email
    /\ rq[r].calls = << <<"getUser", "ok">>, <<"getUserByEmail", "ok">> >>
    /\ users = users0

\* C8 (as claimed): on every path (found by id, found by e-mail, created), when
\* the claims hold a telegram account with a telegramUserId, the user that the
\* call returns has a telegramId recorded, in the row returned and in the table.
C8_LinkageOnEveryPath ==
  \A r \in Reqs :
    (/\ Done(r) /\ rq[r].returned # <<>> /\ NoFaultIn(r)
     /\ HasTelegramClaim(rq[r].claims[1]))
      => /\ rq[r].returned[1].telegramId # <<>>
         /\ \A u \in users : u.id = rq[r].returned[1].id => u.telegramId # <<>>

\* C9: no linkage write is issued while the user already has a telegramId, and
\* over sequential calls with the same claims the linkage is written at most
\* once.
C9_LinkageIdempotent ==
  /\ \A r \in Reqs :
       rq[r].pc = "updateTelegram"
         => \A u \in users : u.id = rq[r].userId => u.telegramId = <<>>
  /\ Cardinality(OkCalls("updateUserTelegramInfo")) <= 1
C9_Witness ==
  /\ fixed # <<>> /\ HasTelegramClaim(fixed[1])
  /\ Done(1) /\ Done(2)
  /\ <<1, Len(rq[1].calls)>> \in OkCalls("updateUserTelegramInfo")
  /\ CallCount(2, "updateUserTelegramInfo") = 0
  /\ rq[2].returned # <<>> /\ rq[2].returned[1].telegramId # <<>>

\* C10 (as claimed): when storage.getUser, storage.getUserByEmail or
\* storage.upsertUser throws, the upsert fails with it: that call is the last
\* storage call of the request, and the request ends with an internal error.
C10_FailurePropagates ==
  \A r \in Reqs :
    \A i \in 1..Len(rq[r].calls) :
      (/\ rq[r].calls[i][2] = "throws"
       /\ rq[r].calls[i][1] \in {"getUser", "getUserByEmail", "upsertUser"})
        => /\ i = Len(rq[r].calls)
           /\ Done(r)
           /\ rq[r].status = 500
           /\ rq[r].nextCalls = 0

\* C11: the storage writes of one request (upsertUser, updateUserTelegramInfo)
\* are aimed at one user id, each operation is issued at most once, that id is
\* the id of the user attached to the request, and a step changes no row of
\* another id.
C11_OneUserPerRequest ==
  /\ [](\A r \in Reqs :
          LET w == rq[r].writes IN
          /\ \A i, j \in 1..Len(w) :
               /\ w[i][2] = w[j][2]
               /\ i # j => w[i][1] # w[j][1]
          /\ (Done(r) /\ rq[r].nextCalls > 0 /\ w # <<>>)
               => rq[r].user # <<>> /\ rq[r].user[1].id = w[1][2])
  /\ [][\A r \in Reqs :
          Len(rq'[r].writes) > Len(rq[r].writes)
            => LET id == rq'[r].writes[Len(rq'[r].writes)][2]
               IN  /\ {u \in users : u.id # id} = {u \in users' : u.id # id}
                   /\ Cardinality({u \in users' : u.id = id}) <= 1]_vars
  /\ [][(\A r \in Reqs : Len(rq'[r].writes) <= Len(rq[r].writes))
          => users' = users]_vars
C11_Witness ==
  \E r \in Reqs :
    /\ Done(r) /\ rq[r].nextCalls = 1
    /\ rq[r].writes = << <<"upsertUser", rq[r].userId>>,
                         <<"updateUserTelegramInfo", rq[r].userId>> >>
    /\ rq[r].user[1].id = rq[r].userId
    /\ rq[r].claims[1].sub # rq[r].userId

C13_Initials ==
  initials # <<>> =>
    LET res == initials[1]
        ats == {i \in 1..Len(emailArg) : emailArg[i] = "@"}
        cut == IF ats = {} THEN Len(emailArg) + 1
               ELSE CHOOSE i \in ats : \A j \in ats : i <= j
        alnum(i) == i >= 1 /\ i < cut /\ IsAlnum(emailArg[i])
        starts == {i \in 1..Len(emailArg) : alnum(i) /\ ~alnum(i - 1)}
        first == CHOOSE i \in starts : \A j \in starts : i <= j
        second == CHOOSE i \in starts \ {first} : \A j \in starts \ {first} : i <= j
    IN  /\ Len(res) <= 2
        /\ Cardinality(starts) >= 2
             => res = <<UpperChar(emailArg[first]), UpperChar(emailArg[second])>>
        /\ Cardinality(starts) = 1
             => res = IF alnum(first + 1)
                        THEN <<UpperChar(emailArg[first]), UpperChar(emailArg[first + 1])>>
                        ELSE <<UpperChar(emailArg[first])>>
        /\ Cardinality(starts) = 0 => res = <<>>
        /\ \A i \in 1..Len(res) : res[i] \notin Range(Lower)
        /\ emailArg = MailJoDoe => res = <<"J", "D">>
        /\ emailArg = MailDoe => res = <<"D", "O">>
        /\ emailArg \in {MailNoLocal, <<>>} => res = <<>>
C13_Witness ==
  /\ emailArg = MailJoDoe
  /\ initials = << <<"J", "D">> >>

\* a request of mutation k is submitted in this step
Submitted(k) == ~mutation[k].isPending /\ mutation'[k].isPending
\* the server answers the request of mutation k in this step
Answered(k) == mutation[k].response = "none" /\ mutation'[k].response # "none"
\* the server reads the balance and checks the request of mutation k in this step
Checked(k) ==
  /\ Awaiting(k)
  /\ handling[k] = "none"
  /\ handling'[k] = "validated" \/ Answered(k)
NothingSent == UNCHANGED <<mutation, wallet, transactions, handling>>

\* C14 as stated: every withdraw request that handleWithdraw submits has
\* 0 < amount <= the user's current primary balance.
C14_SubmittedWithinBalance ==
  [][Submitted("withdraw") =>
       LET a == mutation'["withdraw"].body[1].amount
       IN  0 < a /\ a <= wallet.balance]_vars
\* C14 as amended: every withdraw request that handleWithdraw submits has
\* 0 < amount <= the primary balance the page last fetched; a click with any
\* other amount sends nothing, changes no balance and shows Invalid Amount;
\* and a submitted request whose amount exceeds the balance the server reads
\* is answered as insufficient funds without a balance or ledger change.
C14_WithdrawGuard ==
  /\ [][Submitted("withdraw") =>
          LET a == mutation'["withdraw"].body[1].amount
          IN  0 < a /\ a <= balance.balance]_vars
  /\ [][\A a \in AmountInputs :
          (handleWithdraw(a) /\ ~(0 < a /\ a <= balance.balance))
            => NothingSent /\ toast' = "Invalid Amount"]_vars
  /\ [][Checked("withdraw") =>
          LET a == mutation["withdraw"].body[1].amount
          IN  ~(0 < a /\ a <= wallet.balance)
                => /\ mutation'["withdraw"].response = "insufficient"
                   /\ UNCHANGED <<wallet, transactions, handling>>]_vars
  /\ [][(Answered("withdraw") /\ mutation'["withdraw"].response # "ok")
          => handling["withdraw"] = "none" /\ UNCHANGED <<wallet, transactions>>]_vars
C14_Witness ==
  /\ mutation["withdraw"].response = "insufficient"
  /\ mutation["withdraw"].body[1].amount = Amount(100)
  /\ balance.balance = Amount(100)
  /\ wallet.balance = 0

\* C15 as stated: a swap request is submitted only when the amount is
\* positive and covered by the source balance, so that no request that is
\* rejected has been submitted.
C15_SubmittedWhenCovered ==
  [][Submitted("swap") =>
       LET b == mutation'["swap"].body[1]
       IN  0 < b.amount /\ b.amount <= SourceBalance(wallet, b.fromCurrency)]_vars
\* C15 as amended: handleSwap answers a non-positive amount with Invalid
\* Amount, a money-to-coins amount above the primary balance the page last
\* fetched with Insufficient Balance and a coins-to-money amount above the
\* fetched coin balance with Insufficient Coins, and sends nothing and changes
\* no balance in these cases; it submits only a positive amount covered by the
\* fetched source balance; a submitted request the server finds non-positive
\* or not covered is answered as rejected with no balance or ledger change.
C15_SwapGuards ==
  /\ [][\A a \in AmountInputs, d \in Directions :
          handleSwap(a, d) =>
            /\ a <= 0 => NothingSent /\ toast' = "Invalid Amount"
            /\ (a > 0 /\ d = "money-to-coins" /\ a > balance.balance)
                 => NothingSent /\ toast' = "Insufficient Balance"
            /\ (a > 0 /\ d = "coins-to-money" /\ a > balance.coins)
                 => NothingSent /\ toast' = "Insufficient Coins"]_vars
  /\ [][Submitted("swap") =>
          LET b == mutation'["swap"].body[1]
          IN  0 < b.amount /\ b.amount <= SourceBalance(balance, b.fromCurrency)]_vars
  /\ [][Checked("swap") =>
          LET b == mutation["swap"].body[1]
          IN  ~(0 < b.amount /\ b.amount <= SourceBalance(wallet, b.fromCurrency))
                => /\ mutation'["swap"].response \in {"invalid", "insufficient"}
                   /\ UNCHANGED <<wallet, transactions, handling>>]_vars
  /\ [][(Answered("swap") /\ mutation'["swap"].response # "ok")
          => handling["swap"] = "none" /\ UNCHANGED <<wallet, transactions>>]_vars
C15_Witness ==
  /\ mutation["swap"].response = "insufficient"
  /\ mutation["swap"].body[1] = [amount |-> Amount(100), fromCurrency |-> "money", toCurrency |-> "coins"]
  /\ balance = [balance |-> Amount(100), coins |-> 0]
  /\ wallet = [balance |-> 0, coins |-> Amount(1000)]

\* C16: a swap is requested in the direction chosen, and when the server
\* applies it, money-to-coins of a turns {m, c} into {m - a, c + 10a} and
\* coins-to-money of k turns it into {m + k/10, c - k}, the amount credited
\* being the one the conversion preview showed; a money-to-coins swap
\* followed by the inverse coins-to-money swap restores both balances.
C16_SwapRate ==
  /\ [][\A a \in AmountInputs, d \in Directions :
          (handleSwap(a, d) /\ Submitted("swap"))
            => LET b == mutation'["swap"].body[1]
               IN  /\ b.amount = a
                   /\ d = "money-to-coins" => b.fromCurrency = "money" /\ b.toCurrency = "coins"
                   /\ d = "coins-to-money" => b.fromCurrency = "coins" /\ b.toCurrency = "money"]_vars
  /\ [][(handling["swap"] = "validated" /\ handling'["swap"] = "updated") =>
          LET b == mutation["swap"].body[1]
              a == b.amount
          IN  /\ b.fromCurrency = "money" =>
                   /\ wallet'.balance = wallet.balance - a
                   /\ wallet'.coins = wallet.coins + 10 * a
                   /\ wallet'.coins - wallet.coins = PreviewReceive(a, "money-to-coins")
              /\ b.fromCurrency = "coins" =>
                   /\ 10 * wallet'.balance = 10 * wallet.balance + a
                   /\ wallet'.coins = wallet.coins - a
                   /\ wallet'.balance - wallet.balance = PreviewReceive(a, "coins-to-money")]_vars
  /\ [](\A a \in AmountInputs :
          (0 < a /\ a <= wallet.balance)
            => Swapped(Swapped(wallet, a, "money"), 10 * a, "coins") = wallet)
  /\ []((wallet = [balance |-> Amount(100), coins |-> 0])
          => /\ Swapped(wallet, Amount(10), "money") = [balance |-> Amount(90), coins |-> Amount(100)]
             /\ Swapped([balance |-> 0, coins |-> Amount(50)], Amount(50), "coins")
                  = [balance |-> Amount(5), coins |-> 0])
C16_Witness ==
  /\ transactions = <<Tx("deposit", "money", Amount(100)),
                      Tx("swap", "money", -Amount(10)), Tx("swap", "coins", Amount(100)),
                      Tx("swap", "coins", -Amount(100)), Tx("swap", "money", Amount(10))>>
  /\ wallet = [balance |-> Amount(100), coins |-> 0]
  /\ \A k \in Mutations : ~mutation[k].isPending

Issued(req) == requests'[req] > requests[req] /\ req.answer = "none"
\* the server answers a request of kind k with verdict v in this step
AnsweredKind(k, v) ==
  \E req \in RequestStates :
    req.kind = k /\ req.answer = v /\ requests'[req] > requests[req]
AllowedTransitions ==
  {<<"pending", "active">>, <<"pending", "cancelled">>, <<"open", "active">>,
   <<"open", "cancelled">>, <<"active", "completed">>, <<"active", "disputed">>,
   <<"pending_admin", "completed">>}

C19_JoinOnlyOnce ==
  [][(\E side \in Sides : onJoin(side))
       => /\ card.adminCreated
          /\ card.status \notin {"completed", "ended"}
          /\ viewer.id \notin challenge.participants \cup {challenge.challenger, challenge.challenged}]_vars

\* C20 as stated: each completed pin action flips the pinned flag.
C20_EachPinFlips ==
  [][AnsweredKind("pin", "ok") => challenge'.isPinned = ~challenge.isPinned]_vars
\* C20 as amended: a pin request is issued only by a user whose isAdmin flag
\* is set and only for an admin-created challenge, and carries the negation of
\* the pinned flag the card shows; a completed pin action sets the pinned flag
\* to the value carried and changes no other field of the challenge; nothing
\* else changes the pinned flag.
C20_PinSetsFlag ==
  /\ [][\A b \in BOOLEAN :
          Issued(Request("pin", [pin |-> b]))
            => /\ viewer.isAdmin
               /\ card.adminCreated /\ challenge.adminCreated
               /\ b = ~card.isPinned]_vars
  /\ [][\A b \in BOOLEAN :
          requests'[[Request("pin", [pin |-> b]) EXCEPT !.answer = "ok"]]
              > requests[[Request("pin", [pin |-> b]) EXCEPT !.answer = "ok"]]
            => challenge' = [challenge EXCEPT !.isPinned = b]]_vars
  /\ [][AnsweredKind("pin", "rejected") => challenge' = challenge]_vars
  /\ [][challenge'.isPinned # challenge.isPinned => AnsweredKind("pin", "ok")]_vars
C20_Witness ==
  /\ requests[[Request("pin", [pin |-> TRUE]) EXCEPT !.answer = "ok"]] = 2
  /\ challenge.isPinned
  /\ ~card.isPinned
  /\ viewer.isAdmin

\* the page sends the create request in this step
CreateSent == ~creation.isPending /\ creation'.isPending

\* C21 as stated: a create-challenge request is submitted only when the
\* counterpart, the title (1 to 200 characters), the category and the stake
\* are present and the stake does not exceed the creator's current balance.
C21_CreateWithinBalance ==
  [][CreateSent
       => LET d == creation'.body[1] IN
          /\ d.challenged # "" /\ d.title \in 1..200 /\ d.category # "" /\ d.amount # <<>>
          /\ d.amount[1] <= wallet.balance]_vars
\* C21 as amended: a create-challenge request is submitted only when the
\* counterpart, the title (1 to 200 characters), the category and the stake
\* are present and the stake does not exceed the balance the page last
\* fetched (0 before the first fetch); in every other case the submit sends
\* no request and creates no challenge; a challenge is created only by the
\* server handling a submitted request whose stake is positive and covered by
\* the balance the server reads, and is not created otherwise.
C21_CreateGuard ==
  /\ [][CreateSent
          => LET d == creation'.body[1] IN
             /\ d = form'
             /\ d.challenged # "" /\ d.title \in 1..200 /\ d.category # "" /\ d.amount # <<>>
             /\ d.amount[1] <= balance.balance]_vars
  /\ [][\A f \in FormInputs :
          (/\ onSubmit(f)
           /\ ~(/\ f.challenged # "" /\ f.title \in 1..200 /\ f.category # "" /\ f.amount # <<>>
                /\ f.amount[1] <= balance.balance))
            => /\ creation' = creation
               /\ created' = created
               /\ wallet' = wallet]_vars
  /\ [][created' # created
          => /\ creation.isPending /\ creation.response = "none"
             /\ creation'.response = "ok"
             /\ LET stake == creation.body[1].amount[1] IN
                /\ stake > 0 /\ stake <= wallet.balance
                /\ created' = Append(created, stake)
                /\ wallet'.balance = wallet.balance - stake]_vars
  /\ [][(creation.response = "none" /\ creation'.response \in {"invalid", "insufficient"})
          => created' = created /\ wallet' = wallet]_vars
C21_Witness ==
  /\ creation.response = "insufficient"
  /\ creation.body[1].amount = <<Amount(100)>>
  /\ balance.balance = Amount(100)
  /\ wallet.balance = 0
  /\ created = <<Amount(100)>>

\* the handler of request r answers in this step
Completes(r) == nrq[r].pc # "done" /\ nrq'[r].pc = "done"
\* the user of a request that passed ensureAuth, and the ids its path names
UserOf(q) == q.req.user[1]
NamedId(q) == ParamOf(Routes[q.handler], q.req.path, "id")
NamedChallenge(q) == ParamOf(Routes[q.handler], q.req.path, "challengeId")
OnOneNotification(q) == q.handler \in {MarkReadPut, MarkReadPatch, DeleteOne}

\* C22: DELETE /api/notifications/clear-all by an authenticated user is
\* handled by the clear-all handler, which (unless the database fails) answers
\* success and deletes all notifications of that user and none of another.
C22_ClearAllDeletes ==
  [][\A r \in NotifSlots :
       (/\ Completes(r)
        /\ nrq'[r].req.method = "DELETE" /\ nrq'[r].req.path = <<"clear-all">>
        /\ nrq'[r].req.user # <<>>
        /\ nrq'[r].status # 500)
         => /\ nrq'[r].handler = ClearAll
            /\ nrq'[r].status = 200
            /\ notifications' = {n \in notifications : n.userId # UserOf(nrq'[r])}]_vars

\* C23: a mark-as-read (PUT or PATCH /:id/read) or delete (DELETE /:id)
\* request by user u naming a notification that does not exist or is not
\* owned by u is answered 404 (500 when the lookup throws) and changes no
\* notification; such a request changes at most the notification it names;
\* and a notification is marked read or deleted only by a request of its
\* owner. A request without a user is answered 401.
C23_Ownership ==
  /\ [][\A r \in NotifSlots :
          (/\ nrq[r].pc = "select" /\ nrq'[r] # nrq[r]
           /\ OnOneNotification(nrq[r])
           /\ ~\E n \in notifications : n.id = NamedId(nrq[r]) /\ n.userId = UserOf(nrq[r]))
            => /\ nrq'[r].pc = "done"
               /\ nrq'[r].status \in {404, 500}
               /\ notifications' = notifications]_vars
  /\ [][\A r \in NotifSlots :
          (nrq'[r] # nrq[r] /\ OnOneNotification(nrq'[r]))
            => /\ \A n \in notifications : n.id # NamedId(nrq'[r]) => n \in notifications'
               /\ notifications' # notifications => nrq'[r].status = 200
               /\ nrq'[r].status = 404 => notifications' = notifications]_vars
  /\ [][\A n \in notifications :
          n \notin notifications'
            => \E r \in NotifSlots :
                 /\ Completes(r) /\ nrq'[r].status = 200
                 /\ nrq[r].req.user = <<n.userId>>]_vars
  /\ [][\A r \in NotifSlots :
          (nrq[r].pc = "idle" /\ nrq'[r].pc # "idle" /\ nrq'[r].req.user = <<>> /\ nrq'[r].handler # 0)
            => nrq'[r].pc = "done" /\ nrq'[r].status = 401 /\ notifications' = notifications]_vars
C23_Witness ==
  \E r \in NotifSlots :
    /\ nrq[r].pc = "done" /\ nrq[r].status = 404
    /\ nrq[r].handler = MarkReadPut
    /\ nrq[r].req.user = <<"u1">> /\ NamedId(nrq[r]) = "n3"
    /\ Notification("n3", "u2", FALSE, 3) \in notifications

\* C24: GET /api/notifications answers with records that all belong to the
\* requesting user and are unread, at most limit of them (20 when limit is
\* absent), and with total the number of the user's unread notifications.
C24_ListsUnread ==
  [][\A r \in NotifSlots :
       (Completes(r) /\ nrq'[r].handler = GetList /\ nrq'[r].status = 200)
         => LET q == nrq'[r] IN
            /\ \A i \in 1..Len(q.data) : q.data[i].userId = UserOf(q) /\ ~q.data[i].read
            /\ Len(q.data) <= ParseOr(q.req.query.limit, 20)
            /\ q.total = <<Cardinality({n \in notifications : n.userId = UserOf(q) /\ ~n.read})>>]_vars

\* C27: once the mute-challenge and unmute-challenge requests of one user, on
\* distinct challenge ids, have all completed with success, the stored
\* muted-challenge list holds every id that was muted and none that was
\* unmuted.
C27_NoLostUpdate ==
  (/\ \A r \in NotifSlots : nrq[r].pc \in {"idle", "done"}
   /\ \A r \in NotifSlots : nrq[r].pc = "done" => nrq[r].status = 200
   /\ \A r, s \in NotifSlots :
        (r # s /\ nrq[r].pc = "done" /\ nrq[s].pc = "done")
          => NamedChallenge(nrq[r]) # NamedChallenge(nrq[s]))
    => \A r \in NotifSlots :
         nrq[r].pc = "done"
           => /\ nrq[r].handler = MuteChallenge
                   => Includes(StoredMuted(UserOf(nrq[r])), NamedChallenge(nrq[r]))
              /\ nrq[r].handler = UnmuteChallenge
                   => ~Includes(StoredMuted(UserOf(nrq[r])), NamedChallenge(nrq[r]))

\* the awaited calls of an invocation, in the order it can reach them
AwaitRank(pc) ==
  CASE pc = "verify" -> 1
    [] pc = "getUser" -> 2
    [] pc = "getUserByEmail" -> 3
    [] pc = "upsertUser" -> 4
    [] pc = "updateTelegram" -> 5
    [] OTHER -> 0

\* C25: an invocation of PrivyAuthMiddleware never calls next() and sends a
\* response both, nor either twice; when it has ended, either next() was
\* called once and nothing was sent, or one response, 401 or 500, was sent
\* and next() was not called. No invocation is left unanswered: one that has
\* not ended is waiting for an awaited call, and when that call settles the
\* invocation either ends or waits for a later call.
C25_ExactlyOneOutcome ==
  /\ [](\A r \in Reqs :
          /\ rq[r].nextCalls + rq[r].responses <= 1
          /\ rq[r].responses = 1 => rq[r].status \in {401, 500} /\ Done(r)
          /\ rq[r].nextCalls = 1 => rq[r].status = 0 /\ Done(r)
          /\ Done(r) => rq[r].nextCalls + rq[r].responses = 1
          /\ (Started(r) /\ ~Done(r)) => AwaitRank(rq[r].pc) > 0)
  /\ [][\A r \in Reqs :
          (Started(r) /\ ~Done(r) /\ rq'[r] # rq[r])
            => Done(r)' \/ AwaitRank(rq'[r].pc) > AwaitRank(rq[r].pc)]_vars
C25_Witness ==
  \E r \in Reqs :
    /\ Done(r)
    /\ rq[r].responses = 1 /\ rq[r].nextCalls = 0 /\ rq[r].status = 500
    /\ rq[r].calls # <<>>
    /\ rq[r].calls[Len(rq[r].calls)] = <<"updateUserTelegramInfo", "throws">>

\* C30: when concurrent requests carry identical verified claims for a subject
\* id and e-mail not yet in the user store, and no storage call fails,
\* storage.upsertUser is issued by at most one of them and the requests that
\* have ended have the same user attached.
C30_OneCreation ==
  (/\ fixed # <<>>
   /\ \A u \in users0 : u.id # SubjectOf(fixed[1]) /\ u.email # EmailOf(fixed[1])
   /\ faults = 0)
    => /\ Cardinality({r \in Reqs : CallCount(r, "upsertUser") > 0}) <= 1
       /\ \A r, s \in Reqs :
            (Done(r) /\ Done(s) /\ rq[r].claims = fixed /\ rq[s].claims = fixed)
              => rq[r].user # <<>> /\ rq[r].user = rq[s].user

\* C26: whenever the identity provider is ready and reports not
\* authenticated, the effect of useAuth has run and no getAccessToken call is
\* pending, cachedAuthToken is null and apiRequest attaches no Authorization
\* header.
C26_ClearedOnLogout ==
  (ready /\ ~authenticated /\ ~effectDue /\ tokenFetches = <<>>)
    => cachedAuthToken = <<>> /\ AuthorizationHeader = <<>>

\* C29: after any sequence of Save clicks and notification-toggle changes
\* the alarm bantah_poll_notifications exists only if the saved bantah_notify
\* is true; whenever it is created its period is at least 1 minute, and it is
\* 5 minutes when the interval input is empty, zero or not a number.
C29_AlarmFollowsNotify ==
  /\ [](alarm # <<>> => getSettings.bantah_notify /\ alarm[1] >= 1)
  /\ [][(popup # <<>> /\ alarm' # <<>> /\ (settings' # settings \/ alarm' # alarm)
           /\ parseInt(popup[1].intervalInput) \in {<<>>, <<0>>})
          => alarm'[1] = 5]_vars

\* C28: any two deposit requests submitted through handleDeposit are at
\* least 3000 ms apart; an attempt made within 3000 ms of the last submitted
\* deposit submits nothing; an attempt whose amount is not greater than 0
\* submits nothing and does not restart the cooldown.
LastSubmitted(k) == {i \in 1..k : depositLog[i].submitted /\ \A j \in (i + 1)..k : ~depositLog[j].submitted}
C28_Cooldown ==
  /\ [](\A i, j \in 1..Len(depositLog) :
          /\ (i < j /\ depositLog[i].submitted /\ depositLog[j].submitted)
               => depositLog[j].at - depositLog[i].at >= 3000
          /\ (i \in LastSubmitted(j - 1) /\ depositLog[j].at - depositLog[i].at < 3000)
               => ~depositLog[j].submitted
          /\ depositLog[j].amount <= 0 => ~depositLog[j].submitted
          /\ (depositLog[j].amount > 0 /\ \A k \in LastSubmitted(j - 1) : depositLog[j].at - depositLog[k].at >= 3000)
               => depositLog[j].submitted)
  /\ [][(Len(depositLog') > Len(depositLog) /\ depositLog'[Len(depositLog')].amount <= 0)
          => lastDepositAttempt' = lastDepositAttempt]_vars
\* a deposit, a refused attempt 2999 ms later, an attempt with amount 0 once
\* the cooldown is over, and a second deposit less than 3000 ms after that
C28_Witness ==
  /\ Len(depositLog) = 4
  /\ depositLog[1].submitted
  /\ depositLog[2].amount > 0 /\ ~depositLog[2].submitted /\ depositLog[2].at = depositLog[1].at + 2999
  /\ depositLog[3].amount <= 0 /\ ~depositLog[3].submitted /\ depositLog[3].at >= depositLog[1].at + 3000
  /\ depositLog[4].submitted /\ depositLog[4].at < depositLog[3].at + 3000

====
